---- MODULE Spec2Model ----
(***************************************************************************)
(* Model of the two cores of the repository:                               *)
(*   - the segmented changelog updater                                     *)
(*       eden/mononoke/segmented_changelog/src/update.rs                   *)
(*   - the tree manifest                                                   *)
(*       lib/manifest/src/tree/mod.rs                                      *)
(* Commits are numbered 1..MaxCommits with the parents of a commit taken   *)
(* among the lower numbers (a topological labelling of a finite DAG; the   *)
(* code never looks at the order of changeset ids).                        *)
(***************************************************************************)
EXTENDS Integers, Sequences, FiniteSets, TLC

\* ------------------------------------------------------------------------
\* Bounds
\* ------------------------------------------------------------------------
MaxCommits == 3
NumComponents == 2
MaxDepth == 2
MaxOps == 3
MaxEdits == 3
MaxFinalize == 3
\* the deepest path compat_subtree_diff is called at
MaxCallDepth == 1
\* the largest IdMapVersion (u64::MAX in the code)
MaxVersion == 7

\* ------------------------------------------------------------------------
\* Program constants
\* ------------------------------------------------------------------------
MasterMinId == 0

Commits == 1..MaxCommits
Procs == {1, 2}
None == -1

VARIABLES
    parentsOf,   \* ChangesetFetcher: commit -> sequence of parent commits
    idmap,       \* persistent IdMap: set of <<vertex, commit>> rows
    iddag,       \* IdDag: sequence, iddag[v + 1] = parent vertices of vertex v
    run,         \* per process: the frame of its build_incremental call
    last,        \* what the most recently finished call did and returned
    asg,         \* a stand-alone assign_ids call: its input and its output
    tree,        \* Tree.root: the root Link of the working tree
    store,       \* TreeStore: <<path, node>> -> serialized directory entry
    storeUp,     \* whether the blob store answers at the moment
    tlast,       \* the last tree operation: its arguments and its result
    ptrees,      \* the trees kept as parents for finalize (at most two)
    fin,         \* the finalize calls made on the working tree
    seeding,     \* a SegmentedChangelogBuilder, the version store, the seeder
    storeCap     \* the number of blobs the store has room for, or None

treeVars == <<tree, store, storeUp, tlast, ptrees, fin, seeding, storeCap>>

finVars == <<ptrees, fin>>

scVars == <<parentsOf, idmap, iddag, run, last, asg, seeding, storeCap>>

vars == <<parentsOf, idmap, iddag, run, last, asg, tree, store, storeUp, tlast,
          ptrees, fin, seeding, storeCap>>

\* ------------------------------------------------------------------------
\* Small helpers
\* ------------------------------------------------------------------------
SeqToSet(s) == {s[i] : i \in 1..Len(s)}

MaxOf(S) == CHOOSE x \in S : \A y \in S : y <= x

\* a map (function) extended or overwritten at one key: HashMap::insert
MapPut(m, k, v) == [x \in (DOMAIN m) \cup {k} |-> IF x = k THEN v ELSE m[x]]

MapDel(m, k) == [x \in (DOMAIN m) \ {k} |-> m[x]]

EmptyMap == [x \in {} |-> <<>>]

\* ------------------------------------------------------------------------
\* MemIdMap and IdMap (crate::idmap): rows <<vertex, commit>>
\* ------------------------------------------------------------------------
find_vertex(m, cs) ==
    IF \E e \in m : e[2] = cs
    THEN (CHOOSE e \in m : e[2] = cs)[1]
    ELSE None

find_changeset_id(m, vertex) ==
    IF \E e \in m : e[1] = vertex
    THEN (CHOOSE e \in m : e[1] = vertex)[2]
    ELSE None

mem_insert(m, vertex, cs) == m \cup {<<vertex, cs>>}

\* a row conflicts with the stored rows when the vertex or the commit is
\* already bound to something else
Collides(m, e) ==
    \E x \in m : (x[1] = e[1] /\ x[2] # e[2]) \/ (x[2] = e[2] /\ x[1] # e[1])

\* IdMap::insert_many: atomic per batch, fails on an inconsistent row
insert_many(m, batch) ==
    IF (\E e \in batch : Collides(m, e))
       \/ (\E e \in batch : Collides(batch, e))
    THEN [ok |-> FALSE, idmap |-> m]
    ELSE [ok |-> TRUE, idmap |-> m \cup batch]

\* IdMap::get_last_entry: the row with the highest vertex, if any
get_last_entry(m) ==
    IF m = {} THEN None ELSE MaxOf({e[1] : e \in m})

\* ------------------------------------------------------------------------
\* IdDag (dag crate)
\* ------------------------------------------------------------------------
next_free_id(d) == MasterMinId + Len(d)

contains_id(d, v) == v >= MasterMinId /\ v < next_free_id(d)

\* ------------------------------------------------------------------------
\* StartState
\* ------------------------------------------------------------------------
StartStateNew == [parents |-> EmptyMap, assignments |-> {}]

insert_parents(ss, cs, parents) ==
    [ss EXCEPT !.parents = MapPut(ss.parents, cs, parents)]

insert_vertex_assignment(ss, cs, vertex) ==
    [ss EXCEPT !.assignments = mem_insert(ss.assignments, vertex, cs)]

\* [some |-> FALSE] stands for the None return value
get_parents_if_not_assigned(ss, cs) ==
    IF find_vertex(ss.assignments, cs) # None THEN [some |-> FALSE, v |-> <<>>]
    ELSE IF cs \in DOMAIN ss.parents THEN [some |-> TRUE, v |-> ss.parents[cs]]
    ELSE [some |-> FALSE, v |-> <<>>]

\* ------------------------------------------------------------------------
\* assign_ids
\* ------------------------------------------------------------------------
Visit(cs) == [tag |-> "Visit", cs |-> cs]
Assign(cs) == [tag |-> "Assign", cs |-> cs]

\* mutant of push_parents: the parents are pushed first to last
RECURSIVE push_parents_forward(_, _, _, _)
push_parents_forward(parents, i, todo_stack, seen) ==
    IF i = 0 THEN [stack |-> todo_stack, seen |-> seen]
    ELSE LET j == Len(parents) - i + 1
         IN IF parents[j] \notin seen
            THEN push_parents_forward(parents, i - 1,
                                      Append(todo_stack, Visit(parents[j])),
                                      seen \cup {parents[j]})
            ELSE push_parents_forward(parents, i - 1, todo_stack, seen)

\* the inner loop `for parent in parents.iter().rev()`, from index i down
RECURSIVE push_parents(_, _, _, _)
push_parents(parents, i, todo_stack, seen) ==
    IF i = 0 THEN [stack |-> todo_stack, seen |-> seen]
    ELSE IF parents[i] \notin seen
         THEN push_parents(parents, i - 1,
                           Append(todo_stack, Visit(parents[i])),
                           seen \cup {parents[i]})
         ELSE push_parents(parents, i - 1, todo_stack, seen)

\* mutant of assign_vertex: the numbering starts one above low_vertex
assign_vertex_off_by_one(low_vertex, mem_idmap, cs_id) ==
    mem_insert(mem_idmap, low_vertex + Cardinality(mem_idmap) + 1, cs_id)

\* the Todo::Assign arm: the next free vertex goes to cs_id
assign_vertex(low_vertex, mem_idmap, cs_id) ==
    mem_insert(mem_idmap, low_vertex + Cardinality(mem_idmap), cs_id)

\* the `while let Some(todo) = todo_stack.pop()` loop; iters counts its
\* iterations
RECURSIVE assign_loop(_, _, _, _, _, _)
assign_loop(ss, low_vertex, todo_stack, mem_idmap, seen, iters) ==
    IF todo_stack = <<>> THEN [mem_idmap |-> mem_idmap, iters |-> iters]
    ELSE
      LET todo == todo_stack[Len(todo_stack)]
          rest == SubSeq(todo_stack, 1, Len(todo_stack) - 1)
      IN IF todo.tag = "Visit"
         THEN LET parents == get_parents_if_not_assigned(ss, todo.cs)
              IN IF ~parents.some
                 THEN assign_loop(ss, low_vertex, rest, mem_idmap, seen, iters + 1)
                 ELSE LET p == push_parents(parents.v, Len(parents.v),
                                            Append(rest, Assign(todo.cs)), seen)
                      IN assign_loop(ss, low_vertex, p.stack, mem_idmap, p.seen,
                                     iters + 1)
         ELSE assign_loop(ss, low_vertex, rest,
                          assign_vertex(low_vertex, mem_idmap, todo.cs),
                          seen, iters + 1)

\* mutant of assign_ids_run: head is not put into seen
assign_ids_run_unseeded(ss, head, low_vertex) ==
    assign_loop(ss, low_vertex, <<Visit(head)>>, {}, {}, 0)

assign_ids_run(ss, head, low_vertex) ==
    assign_loop(ss, low_vertex, <<Visit(head)>>, {}, {head}, 0)

assign_ids(ss, head, low_vertex) == assign_ids_run(ss, head, low_vertex).mem_idmap

\* ------------------------------------------------------------------------
\* update_idmap, update_iddag
\* ------------------------------------------------------------------------
\* mutant of update_idmap: the batch is reported as stored and is not
update_idmap_dropped(m, mem_idmap) == [ok |-> TRUE, idmap |-> m]

\* mutant of update_idmap: the table is overwritten with the batch
update_idmap_replace(m, mem_idmap) == [ok |-> TRUE, idmap |-> mem_idmap]

update_idmap(m, mem_idmap) == insert_many(m, mem_idmap)

\* the closure get_vertex_parents of update_iddag
get_vertex_parents(ss, mem_idmap, vertex) ==
    LET inMem == find_changeset_id(mem_idmap, vertex)
        cs_id == IF inMem # None THEN inMem
                 ELSE find_changeset_id(ss.assignments, vertex)
        VertexOf(p) == IF find_vertex(mem_idmap, p) # None
                       THEN find_vertex(mem_idmap, p)
                       ELSE find_vertex(ss.assignments, p)
    IN IF cs_id = None THEN [ok |-> FALSE, v |-> <<>>]
       ELSE IF cs_id \notin DOMAIN ss.parents THEN [ok |-> FALSE, v |-> <<>>]
       ELSE LET parents == ss.parents[cs_id]
            IN IF \E i \in 1..Len(parents) : VertexOf(parents[i]) = None
               THEN [ok |-> FALSE, v |-> <<>>]
               ELSE [ok |-> TRUE,
                     v |-> [i \in 1..Len(parents) |-> VertexOf(parents[i])]]

\* IdDag::build_segments_volatile(high, parents_fn): covers the vertices
\* next_free_id..high, asking parents_fn for each; nothing is kept on error
build_segments_volatile(d, high, ss, mem_idmap) ==
    LET low == next_free_id(d)
    IN IF low > high THEN [ok |-> TRUE, iddag |-> d]
       ELSE IF \E v \in low..high : ~get_vertex_parents(ss, mem_idmap, v).ok
       THEN [ok |-> FALSE, iddag |-> d]
       ELSE [ok |-> TRUE,
             iddag |-> d \o [i \in 1..(high - low + 1) |->
                               get_vertex_parents(ss, mem_idmap, low + i - 1).v]]

\* mutant of update_iddag: only the first missing vertex is built
update_iddag_first_only(d, ss, mem_idmap, head_vertex) ==
    build_segments_volatile(d,
                            IF next_free_id(d) < head_vertex
                            THEN next_free_id(d) ELSE head_vertex,
                            ss, mem_idmap)

update_iddag(d, ss, mem_idmap, head_vertex) ==
    build_segments_volatile(d, head_vertex, ss, mem_idmap)

\* ------------------------------------------------------------------------
\* build_incremental as a process
\* ------------------------------------------------------------------------
IdleRun == [pc |-> "idle", head |-> None,
            id_dag_next_id |-> 0, id_map_next_id |-> 0,
            queue |-> <<>>, visited |-> {}, fetched |-> <<>>,
            start_state |-> StartStateNew,
            mem_idmap |-> {}, head_vertex |-> None,
            idmap0 |-> {}, iddag0 |-> <<>>,
            after |-> "other", prevVertex |-> None]

NoLast == [head |-> None, outcome |-> "none", vertex |-> None,
           wrote |-> FALSE, grew |-> FALSE,
           after |-> "other", prevVertex |-> None]

Completed == {"ok", "ok_none", "err", "reseed"}

\* how a call for head follows the call that finished before it
Follows(head) ==
    IF last.head = head /\ last.outcome \in Completed THEN "same_completed"
    ELSE IF last.head = head /\ last.outcome = "torn" THEN "same_torn"
    ELSE "other"

PrevVertex(head) ==
    IF Follows(head) = "same_completed" THEN last.vertex ELSE None

\* the call of process r ends: its outcome is recorded and its frame dropped
Return(r, outcome, vertex, m, d) ==
    /\ last' = [head |-> run[r].head, outcome |-> outcome, vertex |-> vertex,
                wrote |-> (m # run[r].idmap0),
                grew |-> (d # run[r].iddag0),
                after |-> run[r].after, prevVertex |-> run[r].prevVertex]
    /\ run' = [run EXCEPT ![r] = IdleRun]

IdMapNextId(m) ==
    IF get_last_entry(m) = None THEN MasterMinId ELSE get_last_entry(m) + 1

\* mutant of MustReseed: the comparison is turned around
MustReseed_inverted(id_dag_next_id, id_map_next_id) ==
    id_dag_next_id < id_map_next_id

\* `if id_dag_next_id > id_map_next_id { bail!(..) }`
MustReseed(id_dag_next_id, id_map_next_id) == id_dag_next_id > id_map_next_id

\* prepare_incremental_iddag_update up to the first fetch
Begin(r, head) ==
    /\ run[r].pc = "idle"
    /\ LET id_dag_next_id == next_free_id(iddag)
           id_map_next_id == IdMapNextId(idmap)
           frame == [IdleRun EXCEPT !.head = head,
                                    !.id_dag_next_id = id_dag_next_id,
                                    !.id_map_next_id = id_map_next_id,
                                    !.idmap0 = idmap, !.iddag0 = iddag,
                                    !.after = Follows(head),
                                    !.prevVertex = PrevVertex(head)]
       IN IF MustReseed(id_dag_next_id, id_map_next_id)
          THEN /\ last' = [head |-> head, outcome |-> "reseed",
                           vertex |-> None, wrote |-> FALSE, grew |-> FALSE,
                           after |-> Follows(head),
                           prevVertex |-> PrevVertex(head)]
               /\ run' = run
          ELSE /\ run' = [run EXCEPT ![r] =
                     [frame EXCEPT !.pc = "bfs", !.queue = <<head>>]]
               /\ last' = last
    /\ UNCHANGED <<parentsOf, idmap, iddag, asg, treeVars>>

\* the `for parent in parents` loop that feeds the queue, from index i up
RECURSIVE enqueue_parents(_, _, _, _)
\* mutant of enqueue_parents: a parent is pushed whether or not it was
\* visited before
enqueue_parents_revisit(parents, i, queue, visited) ==
    IF i > Len(parents) THEN [queue |-> queue, visited |-> visited]
    ELSE enqueue_parents(parents, i + 1, Append(queue, parents[i]),
                         visited \cup {parents[i]})

enqueue_parents(parents, i, queue, visited) ==
    IF i > Len(parents) THEN [queue |-> queue, visited |-> visited]
    ELSE IF parents[i] \notin visited
         THEN enqueue_parents(parents, i + 1, Append(queue, parents[i]),
                              visited \cup {parents[i]})
         ELSE enqueue_parents(parents, i + 1, queue, visited)

\* `let vertex_missing_from_iddag = match vertex { .. }`
vertex_missing_from_iddag(d, vertex) ==
    IF vertex # None THEN ~contains_id(d, vertex) ELSE TRUE

\* one iteration of `while let Some(entry) = queue.next().await`
BfsStep(r) ==
    /\ run[r].pc = "bfs"
    /\ run[r].queue # <<>>
    /\ LET cs_id == Head(run[r].queue)
           parents == parentsOf[cs_id]
           vertex == find_vertex(idmap, cs_id)
           ss1 == insert_parents(run[r].start_state, cs_id, parents)
           ss2 == IF vertex # None
                  THEN insert_vertex_assignment(ss1, cs_id, vertex) ELSE ss1
           q == IF vertex_missing_from_iddag(iddag, vertex)
                THEN enqueue_parents(parents, 1, Tail(run[r].queue),
                                     run[r].visited)
                ELSE [queue |-> Tail(run[r].queue), visited |-> run[r].visited]
       IN run' = [run EXCEPT ![r].start_state = ss2,
                             ![r].queue = q.queue,
                             ![r].visited = q.visited,
                             ![r].fetched = Append(run[r].fetched, cs_id)]
    /\ UNCHANGED <<parentsOf, idmap, iddag, last, asg, treeVars>>

\* `if id_dag_next_id == id_map_next_id { if let Some(head_vertex) = .. }`
AlreadyBuilt(f) ==
    /\ f.id_dag_next_id = f.id_map_next_id
    /\ find_vertex(f.start_state.assignments, f.head) # None

\* `mem_idmap.find_vertex(head).or_else(|| start_state.assignments..)`
HeadVertex(mem_idmap, ss, head) ==
    IF find_vertex(mem_idmap, head) # None
    THEN find_vertex(mem_idmap, head)
    ELSE find_vertex(ss.assignments, head)

\* after the queue is drained: the early return, assign_ids, the head vertex
Prepare(r) ==
    /\ run[r].pc = "bfs"
    /\ run[r].queue = <<>>
    /\ LET ss == run[r].start_state
           head == run[r].head
       IN IF AlreadyBuilt(run[r])
          THEN Return(r, "ok_none", find_vertex(ss.assignments, head),
                      idmap, iddag)
          ELSE LET mem_idmap == assign_ids(ss, head, run[r].id_map_next_id)
                   head_vertex == HeadVertex(mem_idmap, ss, head)
               IN IF head_vertex = None
                  THEN Return(r, "err", None, idmap, iddag)
                  ELSE /\ run' = [run EXCEPT ![r].pc = "update_idmap",
                                             ![r].mem_idmap = mem_idmap,
                                             ![r].head_vertex = head_vertex]
                       /\ last' = last
    /\ UNCHANGED <<parentsOf, idmap, iddag, asg, treeVars>>

\* `update_idmap(ctx, idmap, &mem_idmap).await?`
UpdateIdmap(r) ==
    /\ run[r].pc = "update_idmap"
    /\ LET res == update_idmap(idmap, run[r].mem_idmap)
       IN IF res.ok
          THEN /\ idmap' = res.idmap
               /\ run' = [run EXCEPT ![r].pc = "update_iddag"]
               /\ last' = last
          ELSE /\ idmap' = idmap
               /\ Return(r, "err", None, idmap, iddag)
    /\ UNCHANGED <<parentsOf, iddag, asg, treeVars>>

\* build_incremental after prepare_incremental_iddag_update returned Some
UpdateIddag(r) ==
    /\ run[r].pc = "update_iddag"
    /\ LET res == update_iddag(iddag, run[r].start_state, run[r].mem_idmap,
                               run[r].head_vertex)
       IN /\ iddag' = res.iddag
          /\ IF res.ok
             THEN Return(r, "ok", run[r].head_vertex, idmap, res.iddag)
             ELSE Return(r, "err", None, idmap, res.iddag)
    /\ UNCHANGED <<parentsOf, idmap, asg, treeVars>>

\* the call is dropped at one of its suspension points (process killed,
\* future cancelled, fetch error); "torn" when the idmap batch is already
\* persisted and the iddag is not yet updated
Stop(r) ==
    /\ run[r].pc # "idle"
    /\ Return(r, IF run[r].pc = "update_iddag" THEN "torn" ELSE "stopped",
              None, idmap, iddag)
    /\ UNCHANGED <<parentsOf, idmap, iddag, asg, treeVars>>

NoAsg == [called |-> FALSE]

\* ========================================================================
\* Tree manifest (lib/manifest/src/tree/mod.rs)
\* ========================================================================
\* Path components are numbers, ordered as the byte strings they stand for;
\* a path is a sequence of components and <<>> is the root.
Components == 1..NumComponents

RECURSIVE PathsUpTo(_)
PathsUpTo(n) ==
    IF n = 0 THEN {<<>>}
    ELSE PathsUpTo(n - 1)
         \cup {Append(q, c) : q \in {x \in PathsUpTo(n - 1) : Len(x) = n - 1},
                              c \in Components}

Paths == PathsUpTo(MaxDepth)

\* FileMetadata { node, file_type }; nodes are byte strings (sequences)
Metas == {[node |-> <<10>>, file_type |-> "r"],
          [node |-> <<20>>, file_type |-> "x"]}

\* the metadata a new file is inserted with
NewFileMeta == [node |-> <<10>>, file_type |-> "r"]

\* no link: a path that names nothing
NoLink == [kind |-> "None"]

\* Link
Leaf(meta) == [kind |-> "Leaf", meta |-> meta]
Ephemeral(links) == [kind |-> "Ephemeral", links |-> links]
Durable(node, cell) == [kind |-> "Durable", node |-> node, cell |-> cell]

\* DurableEntry.links: OnceCell<Fallible<BTreeMap<..>>>
Unloaded == [st |-> "unloaded"]
LoadedErr == [st |-> "err"]
LoadedOk(links) == [st |-> "ok", links |-> links]

NoLinks == [c \in {} |-> Unloaded]

\* Link::durable(node)
LinkDurable(node) == Durable(node, Unloaded)

IsDir(link) == link.kind # "Leaf"

\* keys of a BTreeMap in iteration order
RECURSIVE SortedKeys(_)
SortedKeys(S) ==
    IF S = {} THEN <<>>
    ELSE LET m == CHOOSE x \in S : \A y \in S : x <= y
         IN <<m>> \o SortedKeys(S \ {m})

\* store::Element, store::Flag, store::Entry
Element(component, node, flag) ==
    [component |-> component, node |-> node, flag |-> flag]

FlagByte(flag) ==
    CASE flag = "t" -> 0 [] flag = "r" -> 1 [] flag = "x" -> 2 [] flag = "l" -> 3

\* the bytes of an entry: one run per element, the node length-prefixed
RECURSIVE EntryBytes(_)
EntryBytes(entry) ==
    IF entry = <<>> THEN <<>>
    ELSE <<entry[1].component, FlagByte(entry[1].flag), Len(entry[1].node)>>
            \o entry[1].node \o EntryBytes(Tail(entry))

\* flush::compute_node: SHA-1 of the content, taken as collision free
compute_node(content) == <<Len(content)>> \o content

\* the links a stored entry describes (DurableEntry::get_links, the closure)
EntryLinks(entry) ==
    [c \in {entry[i].component : i \in 1..Len(entry)} |->
        LET e == entry[CHOOSE i \in 1..Len(entry) : entry[i].component = c]
        IN IF e.flag = "t" THEN LinkDurable(e.node)
           ELSE Leaf([node |-> e.node, file_type |-> e.flag])]

FlagOfByte(b) ==
    CASE b = 0 -> "t" [] b = 1 -> "r" [] b = 2 -> "x" [] b = 3 -> "l"

\* the elements a run of entry bytes stands for
RECURSIVE ParseEntry(_)
ParseEntry(bytes) ==
    IF bytes = <<>> THEN <<>>
    ELSE LET n == bytes[3]
         IN <<Element(bytes[1], SubSeq(bytes, 4, 3 + n), FlagOfByte(bytes[2]))>>
               \o ParseEntry(SubSeq(bytes, 4 + n, Len(bytes)))

\* TreeStore::insert(path, node, bytes)
store_insert(st, path, node, bytes) == MapPut(st, <<path, node>>, bytes)

\* InnerStore::get_entry: the stored bytes, parsed
get_entry(st, up, path, node) ==
    IF up /\ <<path, node>> \in DOMAIN st
    THEN [ok |-> TRUE, entry |-> ParseEntry(st[<<path, node>>])]
    ELSE [ok |-> FALSE, entry |-> <<>>]

\* the store takes the blob: it answers, and it has room for a new key
\* (storeCap is None when the room is not limited)
store_accepts(st, up, path, node) ==
    /\ up
    /\ \/ storeCap = None
       \/ <<path, node>> \in DOMAIN st
       \/ Cardinality(DOMAIN st) < storeCap

\* InnerStore::insert_entry: the bytes of the entry are stored
insert_entry(st, up, path, node, entry) ==
    IF store_accepts(st, up, path, node)
    THEN [ok |-> TRUE, store |-> store_insert(st, path, node, EntryBytes(entry))]
    ELSE [ok |-> FALSE, store |-> st]

\* mutant of get_links: a cell that holds an error is filled anew
get_links_retry(link, st, up, path) ==
    LET Filled(links) == [ok |-> TRUE,
                          self |-> Durable(link.node, LoadedOk(links)),
                          links |-> links]
        Loaded(e) == IF e.ok THEN Filled(EntryLinks(e.entry))
                     ELSE [ok |-> FALSE, self |-> Durable(link.node, LoadedErr),
                           links |-> NoLinks]
    IN IF link.cell.st = "ok"
       THEN [ok |-> TRUE, self |-> link, links |-> link.cell.links]
       ELSE Loaded(get_entry(st, up, path, link.node))

\* DurableEntry::get_links: the cell is filled on the first call, with the
\* links or with the error, and never again
get_links(link, st, up, path) ==
    LET Filled(links) == [ok |-> TRUE,
                          self |-> Durable(link.node, LoadedOk(links)),
                          links |-> links]
        Loaded(e) == IF e.ok THEN Filled(EntryLinks(e.entry))
                     ELSE [ok |-> FALSE, self |-> Durable(link.node, LoadedErr),
                           links |-> NoLinks]
    IN IF link.cell.st = "ok"
       THEN [ok |-> TRUE, self |-> link, links |-> link.cell.links]
       ELSE IF link.cell.st = "err"
       THEN [ok |-> FALSE, self |-> link, links |-> NoLinks]
       ELSE Loaded(get_entry(st, up, path, link.node))

\* a directory with one child replaced, the kind of the directory kept
WithChild(link, links, c, child) ==
    IF link.kind = "Ephemeral" THEN Ephemeral(MapPut(links, c, child))
    ELSE Durable(link.node, LoadedOk(MapPut(links, c, child)))

\* The descent shared by Tree::get_link and the first loop of Tree::insert:
\* st is "found" (cursor is the link at the path), "missing" (a component has
\* no child), "leaf" (a Leaf was met with components left) or "err"; self is
\* the link walked from, with the cells the descent has filled.
RECURSIVE walk(_, _, _, _, _)
walk(link, st, up, parent, comps) ==
    IF comps = <<>> THEN [st |-> "found", self |-> link, cursor |-> link]
    ELSE IF link.kind = "Leaf"
    THEN [st |-> "leaf", self |-> link, cursor |-> link]
    ELSE LET c == comps[1]
             Down(g, r) == [st |-> r.st,
                            self |-> WithChild(g.self, g.links, c, r.self),
                            cursor |-> r.cursor]
             At(g) ==
                 IF ~g.ok THEN [st |-> "err", self |-> g.self, cursor |-> link]
                 ELSE IF c \notin DOMAIN g.links
                 THEN [st |-> "missing", self |-> g.self, cursor |-> link]
                 ELSE Down(g, walk(g.links[c], st, up, Append(parent, c),
                                   Tail(comps)))
         IN At(IF link.kind = "Ephemeral"
               THEN [ok |-> TRUE, self |-> link, links |-> link.links]
               ELSE get_links(link, st, up, parent))

\* Tree::get_link and Tree::get
get(root, st, up, path) ==
    LET Res(w) ==
            [root |-> w.self,
             res |-> IF w.st = "err" THEN [kind |-> "Err"]
                     ELSE IF w.st # "found" THEN [kind |-> "None"]
                     ELSE IF w.cursor.kind = "Leaf"
                     THEN [kind |-> "File", meta |-> w.cursor.meta]
                     ELSE [kind |-> "Directory"]]
    IN Res(walk(root, st, up, <<>>, path))

\* Link::mut_ephemeral_links: a Durable directory becomes Ephemeral with a
\* copy of its links; a Leaf or a failed load is an error
mut_ephemeral_links(link, st, up, parent) ==
    LET Of(g) == IF g.ok THEN [ok |-> TRUE, self |-> Ephemeral(g.links),
                               links |-> g.links]
                 ELSE [ok |-> FALSE, self |-> g.self, links |-> NoLinks]
    IN IF link.kind = "Leaf"
       THEN [ok |-> FALSE, self |-> link, links |-> NoLinks]
       ELSE IF link.kind = "Ephemeral"
       THEN [ok |-> TRUE, self |-> link, links |-> link.links]
       ELSE Of(get_links(link, st, up, parent))

\* mutant of set_leaf: an occupied entry keeps its old metadata
set_leaf_vacant_only(links, c, meta) ==
    IF c \in DOMAIN links THEN links ELSE MapPut(links, c, Leaf(meta))

\* the `match .. .entry(last_component)` of Tree::insert: a vacant entry
\* gets the leaf, the metadata of an occupied one is overwritten
set_leaf(links, c, meta) == MapPut(links, c, Leaf(meta))

\* the second half of Tree::insert: the spine is made Ephemeral on the way
\* down, missing directories are created, the leaf is set
RECURSIVE insert_spine(_, _, _, _, _, _)
\* mutant of insert_spine: the loaded Durable directories next to the spine
\* are made Ephemeral as well
insert_spine_widened(link, st, up, parent, comps, meta) ==
    LET c == comps[1]
        Widened(links) ==
            [x \in DOMAIN links |->
                IF x # c /\ links[x].kind = "Durable" /\ links[x].cell.st = "ok"
                THEN Ephemeral(links[x].cell.links) ELSE links[x]]
        Down(m, r) == [ok |-> r.ok,
                       self |-> Ephemeral(Widened(MapPut(m.links, c, r.self)))]
        In(m) ==
            IF ~m.ok THEN [ok |-> FALSE, self |-> m.self]
            ELSE IF Len(comps) = 1
            THEN IF c \in DOMAIN m.links /\ m.links[c].kind # "Leaf"
                 THEN [ok |-> FALSE, self |-> m.self]
                 ELSE [ok |-> TRUE,
                       self |-> Ephemeral(Widened(set_leaf(m.links, c, meta)))]
            ELSE Down(m, insert_spine(IF c \in DOMAIN m.links THEN m.links[c]
                                      ELSE Ephemeral(NoLinks),
                                      st, up, Append(parent, c), Tail(comps),
                                      meta))
    IN In(mut_ephemeral_links(link, st, up, parent))

insert_spine(link, st, up, parent, comps, meta) ==
    LET c == comps[1]
        Down(m, r) == [ok |-> r.ok,
                       self |-> Ephemeral(MapPut(m.links, c, r.self))]
        In(m) ==
            IF ~m.ok THEN [ok |-> FALSE, self |-> m.self]
            ELSE IF Len(comps) = 1
            THEN IF c \in DOMAIN m.links /\ m.links[c].kind # "Leaf"
                 THEN [ok |-> FALSE, self |-> m.self]
                 ELSE [ok |-> TRUE,
                       self |-> Ephemeral(set_leaf(m.links, c, meta))]
            ELSE Down(m, insert_spine(IF c \in DOMAIN m.links THEN m.links[c]
                                      ELSE Ephemeral(NoLinks),
                                      st, up, Append(parent, c), Tail(comps),
                                      meta))
    IN In(mut_ephemeral_links(link, st, up, parent))

\* mutant of insert: the spine is rewritten without the check that the
\* path can take a file
insert_no_precheck(root, st, up, path, meta) ==
    IF path = <<>> THEN [ok |-> FALSE, err |-> "directory", root |-> root]
    ELSE LET r == insert_spine(root, st, up, <<>>, path, meta)
         IN [ok |-> r.ok, err |-> IF r.ok THEN "" ELSE "file", root |-> r.self]

\* mutant of insert: the empty path is taken as the path of a file
insert_at_root(root, st, up, path, meta) ==
    LET w == walk(root, st, up, <<>>, path)
    IN IF path = <<>> THEN [ok |-> TRUE, err |-> "", root |-> Leaf(meta)]
       ELSE IF w.st = "err"
       THEN [ok |-> FALSE, err |-> "store", root |-> w.self]
       ELSE IF w.st = "leaf"
       THEN [ok |-> FALSE, err |-> "file", root |-> w.self]
       ELSE IF w.st = "found" /\ w.cursor.kind # "Leaf"
       THEN [ok |-> FALSE, err |-> "directory", root |-> w.self]
       ELSE IF w.st = "found" /\ w.cursor.meta = meta
       THEN [ok |-> TRUE, err |-> "", root |-> w.self]
       ELSE LET r == insert_spine(w.self, st, up, <<>>, path, meta)
            IN [ok |-> r.ok, err |-> IF r.ok THEN "" ELSE "store",
                root |-> r.self]

\* mutant of insert: the comparison with the existing metadata is left out
\* and the file is written again
insert_rewrites_equal(root, st, up, path, meta) ==
    LET Spine(r) == [ok |-> r.ok, err |-> IF r.ok THEN "" ELSE "store",
                     root |-> r.self]
        Walked(w) ==
            IF w.st = "err" THEN [ok |-> FALSE, err |-> "store", root |-> w.self]
            ELSE IF w.st = "leaf"
            THEN [ok |-> FALSE, err |-> "file", root |-> w.self]
            ELSE IF w.st = "found" /\ w.cursor.kind # "Leaf"
            THEN [ok |-> FALSE, err |-> "directory", root |-> w.self]
            ELSE Spine(insert_spine(w.self, st, up, <<>>, path, meta))
    IN Walked(walk(root, st, up, <<>>, path))

\* Tree::insert
insert(root, st, up, path, meta) ==
    LET Spine(r) == [ok |-> r.ok, err |-> IF r.ok THEN "" ELSE "store",
                     root |-> r.self]
        Walked(w) ==
            IF w.st = "err" THEN [ok |-> FALSE, err |-> "store", root |-> w.self]
            ELSE IF w.st = "leaf"
            THEN [ok |-> FALSE, err |-> "file", root |-> w.self]
            ELSE IF w.st = "found" /\ w.cursor.kind # "Leaf"
            THEN [ok |-> FALSE, err |-> "directory", root |-> w.self]
            ELSE IF w.st = "found" /\ w.cursor.meta = meta
            THEN [ok |-> TRUE, err |-> "", root |-> w.self]
            ELSE Spine(insert_spine(w.self, st, up, <<>>, path, meta))
    IN Walked(walk(root, st, up, <<>>, path))

\* ------------------------------------------------------------------------
\* Cursor: the in-order iterator over the links of a tree
\* ------------------------------------------------------------------------
\* the children of a directory whose links are at hand
ChildLinks(link) ==
    IF link.kind = "Ephemeral" THEN link.links
    ELSE IF link.kind = "Durable" /\ link.cell.st = "ok" THEN link.cell.links
    ELSE NoLinks

\* the link at a path the cursor has walked to
RECURSIVE LinkAt(_, _)
LinkAt(link, comps) ==
    IF comps = <<>> THEN link
    ELSE LinkAt(ChildLinks(link)[comps[1]], Tail(comps))

\* the tree with the link at a path replaced (a cell filled in place)
RECURSIVE SetLinkAt(_, _, _)
SetLinkAt(link, comps, new) ==
    IF comps = <<>> THEN new
    ELSE WithChild(link, ChildLinks(link), comps[1],
                   SetLinkAt(ChildLinks(link)[comps[1]], Tail(comps), new))

MinOf(S) == CHOOSE x \in S : \A y \in S : x <= y

\* RepoPath order, component by component
RECURSIVE PathLess(_, _)
PathLess(a, b) ==
    IF b = <<>> THEN FALSE
    ELSE IF a = <<>> THEN TRUE
    ELSE IF a[1] # b[1] THEN a[1] < b[1]
    ELSE PathLess(Tail(a), Tail(b))

\* Cursor::new(store, path, link)
CursorNew(root) == [state |-> "init", path |-> <<>>, root |-> root]

\* Cursor::link, Cursor::path, Cursor::finished
cursor_link(cur) == LinkAt(cur.root, cur.path)

cursor_finished(cur) == cur.state = "done"

\* Cursor::skip_subtree: the next step does not descend
skip_subtree(cur) ==
    IF cur.state \in {"init", "push"} THEN [cur EXCEPT !.state = "pop"]
    ELSE cur

\* the step to the next sibling of the cursor's link, or of the nearest
\* ancestor that has one
RECURSIVE cursor_next(_, _)
cursor_next(cur, path) ==
    IF path = <<>> THEN [res |-> "End", cur |-> [cur EXCEPT !.state = "done"]]
    ELSE LET parent == SubSeq(path, 1, Len(path) - 1)
             later == {k \in DOMAIN ChildLinks(LinkAt(cur.root, parent)) :
                          k > path[Len(path)]}
         IN IF later = {} THEN cursor_next(cur, parent)
            ELSE [res |-> "Success",
                  cur |-> [cur EXCEPT !.state = "push",
                                      !.path = Append(parent, MinOf(later))]]

\* Cursor::step
cursor_step(cur, st, up) ==
    LET Into(g, c2) ==
            IF ~g.ok
            THEN [res |-> "Err", cur |-> [c2 EXCEPT !.state = "done"]]
            ELSE IF DOMAIN g.links = {} THEN cursor_next(c2, c2.path)
            ELSE [res |-> "Success",
                  cur |-> [c2 EXCEPT
                             !.path = Append(@, MinOf(DOMAIN g.links))]]
        Loaded(g) ==
            Into(g, [cur EXCEPT !.root = SetLinkAt(@, cur.path, g.self)])
        At(link) ==
            IF link.kind = "Leaf" THEN cursor_next(cur, cur.path)
            ELSE Loaded(IF link.kind = "Ephemeral"
                        THEN [ok |-> TRUE, self |-> link, links |-> link.links]
                        ELSE get_links(link, st, up, cur.path))
    IN IF cur.state = "init"
       THEN [res |-> "Success", cur |-> [cur EXCEPT !.state = "push"]]
       ELSE IF cur.state = "done" THEN [res |-> "End", cur |-> cur]
       ELSE IF cur.state = "pop" THEN cursor_next(cur, cur.path)
       ELSE At(cursor_link(cur))

\* a Matcher, by the answers it gives: the files it rejects and the
\* directories it answers DirectoryMatch::Nothing for
Matcher(nofile, nothing) == [nofile |-> nofile, nothing |-> nothing]

AlwaysMatcher == Matcher({}, {})

matches_file(matcher, path) == path \notin matcher.nofile

matches_directory(matcher, path) ==
    IF path \in matcher.nothing THEN "Nothing" ELSE "Everything"

\* the matchers handed to files: each rejects at most one file and answers
\* Nothing for at most one directory; one that does both does so for
\* entries of the root
Matchers ==
    {Matcher({}, d) : d \in {{}} \cup {{q} : q \in Paths}}
        \cup {Matcher({q}, {}) : q \in Paths \ {<<>>}}
        \cup {Matcher({<<c>>}, {<<d>>}) : c, d \in Components}

\* mutant of files_visit: the subtree of a directory that answered Nothing
\* is walked all the same
files_visit_no_skip(cur, link, matcher) ==
    [cur |-> cur,
     yield |-> link.kind = "Leaf" /\ matches_file(matcher, cur.path)]

\* the Step::Success arm of Files::next: a matched file is yielded, a
\* directory that answers Nothing is skipped
files_visit(cur, link, matcher) ==
    IF link.kind = "Leaf"
    THEN [cur |-> cur, yield |-> matches_file(matcher, cur.path)]
    ELSE [cur |-> IF matches_directory(matcher, cur.path) = "Nothing"
                  THEN skip_subtree(cur) ELSE cur,
          yield |-> FALSE]

\* Files::next, run to the end: the files in the order the cursor meets them
RECURSIVE files_loop(_, _, _, _, _)
files_loop(cur, matcher, st, up, acc) ==
    LET Visited(v, link) ==
            files_loop(v.cur, matcher, st, up,
                       IF v.yield THEN Append(acc, <<v.cur.path, link.meta>>)
                       ELSE acc)
        Found(s, link) == Visited(files_visit(s.cur, link, matcher), link)
        Stepped(s) ==
            IF s.res = "End"
            THEN [ok |-> TRUE, root |-> s.cur.root, files |-> acc]
            ELSE IF s.res = "Err"
            THEN [ok |-> FALSE, root |-> s.cur.root, files |-> acc]
            ELSE Found(s, cursor_link(s.cur))
    IN Stepped(cursor_step(cur, st, up))

\* Tree::files(&matcher).collect()
files_matching(root, matcher, st, up) ==
    files_loop(CursorNew(root), matcher, st, up, <<>>)

\* Tree::files(&AlwaysMatcher).collect()
files(root, st, up) == files_matching(root, AlwaysMatcher, st, up)

\* Tree::list: NotFound, File, or the components of the directory, whose
\* links are loaded for it
list(root, st, up, path) ==
    LET Dir(links) == [kind |-> "Directory", keys |-> SortedKeys(DOMAIN links)]
        Loaded(w, g) ==
            [root |-> SetLinkAt(w.self, path, g.self),
             res |-> IF g.ok THEN Dir(g.links) ELSE [kind |-> "Err"]]
        Walked(w) ==
            IF w.st = "err" THEN [root |-> w.self, res |-> [kind |-> "Err"]]
            ELSE IF w.st # "found"
            THEN [root |-> w.self, res |-> [kind |-> "NotFound"]]
            ELSE IF w.cursor.kind = "Leaf"
            THEN [root |-> w.self, res |-> [kind |-> "File"]]
            ELSE IF w.cursor.kind = "Ephemeral"
            THEN [root |-> w.self, res |-> Dir(w.cursor.links)]
            ELSE Loaded(w, get_links(w.cursor, st, up, path))
    IN Walked(walk(root, st, up, <<>>, path))

\* Manifest::get_file: the metadata when the path names a file
get_file(root, st, up, path) ==
    LET Of(g) == [root |-> g.root, ok |-> g.res.kind # "Err",
                  ret |-> IF g.res.kind = "File" THEN <<g.res.meta>> ELSE <<>>]
    IN Of(get(root, st, up, path))

\* mutant of links_after_remove: an emptied directory is left in place
links_after_remove_keep_dirs(links, c, gone, child) ==
    IF gone /\ child.kind = "Leaf" THEN MapDel(links, c)
    ELSE MapPut(links, c, child)

\* do_remove, after the recursive call: `ephemeral_links.remove(component)`
\* when the subtree of the component has no files left
links_after_remove(links, c, gone, child) ==
    IF gone THEN MapDel(links, c) ELSE MapPut(links, c, child)

\* do_remove of Tree::remove: gone tells the caller that no file is left
\* below the link. Reaching a directory at the end of the path is the
\* unreachable!() of the code, given as a failed call.
RECURSIVE do_remove(_, _, _, _, _)
do_remove(link, st, up, parent, comps) ==
    IF comps = <<>>
    THEN [ok |-> link.kind = "Leaf", self |-> link, gone |-> TRUE]
    ELSE LET c == comps[1]
             Child(m, r) ==
                 LET links == links_after_remove(m.links, c, r.gone, r.self)
                 IN IF ~r.ok
                    THEN [ok |-> FALSE,
                          self |-> Ephemeral(MapPut(m.links, c, r.self)),
                          gone |-> FALSE]
                    ELSE [ok |-> TRUE, self |-> Ephemeral(links),
                          gone |-> DOMAIN links = {}]
             In(m) ==
                 IF ~m.ok THEN [ok |-> FALSE, self |-> m.self, gone |-> FALSE]
                 ELSE IF c \notin DOMAIN m.links
                 THEN [ok |-> TRUE, self |-> Ephemeral(m.links),
                       gone |-> DOMAIN m.links = {}]
                 ELSE Child(m, do_remove(m.links[c], st, up, Append(parent, c),
                                         Tail(comps)))
         IN In(mut_ephemeral_links(link, st, up, parent))

\* mutant of remove: the spine is walked without asking get_file first
remove_unchecked(root, st, up, path) ==
    LET r == do_remove(root, st, up, <<>>, path)
    IN [ok |-> TRUE, ret |-> <<>>, root |-> r.self]

\* Tree::remove
remove(root, st, up, path) ==
    LET Found(f, r) == [ok |-> r.ok, ret |-> IF r.ok THEN f.ret ELSE <<>>,
                        root |-> r.self]
        Checked(f) ==
            IF ~f.ok THEN [ok |-> FALSE, ret |-> <<>>, root |-> f.root]
            ELSE IF f.ret = <<>>
            THEN [ok |-> TRUE, ret |-> <<>>, root |-> f.root]
            ELSE Found(f, do_remove(f.root, st, up, <<>>, path))
    IN Checked(get_file(root, st, up, path))

\* do_flush of Tree::flush. The children of an Ephemeral directory are
\* flushed in key order (from index i of keys); an error leaves the children
\* flushed so far Durable and the directory Ephemeral.
RECURSIVE do_flush(_, _, _, _)
RECURSIVE flush_links(_, _, _, _, _, _, _)
\* mutant of flush_links: the component is not pushed onto the path
flush_links_no_push(links, keys, i, elems, st, up, path) ==
    IF i > Len(keys)
    THEN [ok |-> TRUE, links |-> links, entry |-> elems, store |-> st,
          writes |-> 0]
    ELSE LET c == keys[i]
             r == do_flush(links[c], st, up, path)
         IN IF ~r.ok
            THEN [ok |-> FALSE, links |-> MapPut(links, c, r.self),
                  entry |-> elems, store |-> r.store, writes |-> r.writes]
            ELSE LET f == flush_links(MapPut(links, c, r.self), keys, i + 1,
                                      Append(elems, Element(c, r.node, r.flag)),
                                      r.store, up, path)
                 IN [f EXCEPT !.writes = @ + r.writes]

\* mutant of flush_links: a child whose flush failed is dropped from the
\* links of its directory
flush_links_drop_failed(links, keys, i, elems, st, up, path) ==
    IF i > Len(keys)
    THEN [ok |-> TRUE, links |-> links, entry |-> elems, store |-> st,
          writes |-> 0]
    ELSE LET c == keys[i]
             Rest(r, f) == [f EXCEPT !.writes = @ + r.writes]
             Child(r) ==
                 IF ~r.ok
                 THEN [ok |-> FALSE,
                       links |-> [x \in DOMAIN links \ {c} |-> links[x]],
                       entry |-> elems, store |-> r.store,
                       writes |-> r.writes]
                 ELSE Rest(r, flush_links(
                                  MapPut(links, c, r.self), keys, i + 1,
                                  Append(elems, Element(c, r.node, r.flag)),
                                  r.store, up, path))
         IN Child(do_flush(links[c], st, up, Append(path, c)))

flush_links(links, keys, i, elems, st, up, path) ==
    IF i > Len(keys)
    THEN [ok |-> TRUE, links |-> links, entry |-> elems, store |-> st,
          writes |-> 0]
    ELSE LET c == keys[i]
             Rest(r, f) == [f EXCEPT !.writes = @ + r.writes]
             Child(r) ==
                 IF ~r.ok
                 THEN [ok |-> FALSE, links |-> MapPut(links, c, r.self),
                       entry |-> elems, store |-> r.store,
                       writes |-> r.writes]
                 ELSE Rest(r, flush_links(
                                  MapPut(links, c, r.self), keys, i + 1,
                                  Append(elems, Element(c, r.node, r.flag)),
                                  r.store, up, path))
         IN Child(do_flush(links[c], st, up, Append(path, c)))

\* mutant of do_flush: the cell of the new Durable directory is set to the
\* links as they were before the children were flushed
do_flush_stale_links(link, st, up, path) ==
    LET Written(f, node, ins) ==
            IF ~ins.ok
            THEN [ok |-> FALSE, self |-> Ephemeral(f.links), node |-> <<>>,
                  flag |-> "t", store |-> f.store, writes |-> f.writes]
            ELSE [ok |-> TRUE, self |-> Durable(node, LoadedOk(link.links)),
                  node |-> node, flag |-> "t", store |-> ins.store,
                  writes |-> f.writes + 1]
        Hashed(f, node) ==
            Written(f, node, insert_entry(f.store, up, path, node, f.entry))
        Children(f) ==
            IF ~f.ok
            THEN [ok |-> FALSE, self |-> Ephemeral(f.links), node |-> <<>>,
                  flag |-> "t", store |-> f.store, writes |-> f.writes]
            ELSE Hashed(f, compute_node(EntryBytes(f.entry)))
    IN IF link.kind = "Leaf"
       THEN [ok |-> TRUE, self |-> link, node |-> link.meta.node,
             flag |-> link.meta.file_type, store |-> st, writes |-> 0]
       ELSE IF link.kind = "Durable"
       THEN [ok |-> TRUE, self |-> link, node |-> link.node, flag |-> "t",
             store |-> st, writes |-> 0]
       ELSE Children(flush_links(link.links, SortedKeys(DOMAIN link.links), 1,
                                 <<>>, st, up, path))

\* the hash flush gives a link, computed without the store
RECURSIVE flush_node(_)
flush_node(link) ==
    IF link.kind = "Leaf" THEN link.meta.node
    ELSE IF link.kind = "Durable" THEN link.node
    ELSE compute_node(EntryBytes(
             [i \in 1..Cardinality(DOMAIN link.links) |->
                 LET c == SortedKeys(DOMAIN link.links)[i]
                 IN Element(c, flush_node(link.links[c]),
                            IF link.links[c].kind = "Leaf"
                            THEN link.links[c].meta.file_type ELSE "t")]))

\* mutant of do_flush: the entry of a directory is written before the
\* entries of its children
do_flush_parent_first(link, st, up, path) ==
    LET entry == [i \in 1..Cardinality(DOMAIN link.links) |->
                     LET c == SortedKeys(DOMAIN link.links)[i]
                     IN Element(c, flush_node(link.links[c]),
                                IF link.links[c].kind = "Leaf"
                                THEN link.links[c].meta.file_type ELSE "t")]
        node == flush_node(link)
        Children(f) ==
            IF ~f.ok
            THEN [ok |-> FALSE, self |-> Ephemeral(f.links), node |-> <<>>,
                  flag |-> "t", store |-> f.store, writes |-> f.writes + 1]
            ELSE [ok |-> TRUE, self |-> Durable(node, LoadedOk(f.links)),
                  node |-> node, flag |-> "t", store |-> f.store,
                  writes |-> f.writes + 1]
        Written(ins) ==
            IF ~ins.ok
            THEN [ok |-> FALSE, self |-> link, node |-> <<>>, flag |-> "t",
                  store |-> st, writes |-> 0]
            ELSE Children(flush_links(link.links,
                                      SortedKeys(DOMAIN link.links), 1, <<>>,
                                      ins.store, up, path))
    IN IF link.kind = "Leaf"
       THEN [ok |-> TRUE, self |-> link, node |-> link.meta.node,
             flag |-> link.meta.file_type, store |-> st, writes |-> 0]
       ELSE IF link.kind = "Durable"
       THEN [ok |-> TRUE, self |-> link, node |-> link.node, flag |-> "t",
             store |-> st, writes |-> 0]
       ELSE Written(insert_entry(st, up, path, node, entry))

do_flush(link, st, up, path) ==
    LET Written(f, node, ins) ==
            IF ~ins.ok
            THEN [ok |-> FALSE, self |-> Ephemeral(f.links), node |-> <<>>,
                  flag |-> "t", store |-> f.store, writes |-> f.writes]
            ELSE [ok |-> TRUE, self |-> Durable(node, LoadedOk(f.links)),
                  node |-> node, flag |-> "t", store |-> ins.store,
                  writes |-> f.writes + 1]
        Hashed(f, node) ==
            Written(f, node, insert_entry(f.store, up, path, node, f.entry))
        Children(f) ==
            IF ~f.ok
            THEN [ok |-> FALSE, self |-> Ephemeral(f.links), node |-> <<>>,
                  flag |-> "t", store |-> f.store, writes |-> f.writes]
            ELSE Hashed(f, compute_node(EntryBytes(f.entry)))
    IN IF link.kind = "Leaf"
       THEN [ok |-> TRUE, self |-> link, node |-> link.meta.node,
             flag |-> link.meta.file_type, store |-> st, writes |-> 0]
       ELSE IF link.kind = "Durable"
       THEN [ok |-> TRUE, self |-> link, node |-> link.node, flag |-> "t",
             store |-> st, writes |-> 0]
       ELSE Children(flush_links(link.links, SortedKeys(DOMAIN link.links), 1,
                                 <<>>, st, up, path))

\* mutant of flush: a root that is already Durable is written again
flush_rewrite_root(root, st, up) ==
    do_flush(IF root.kind = "Durable" /\ root.cell.st = "ok"
             THEN Ephemeral(root.cell.links) ELSE root, st, up, <<>>)

\* Tree::flush
flush(root, st, up) == do_flush(root, st, up, <<>>)

\* ------------------------------------------------------------------------
\* Tree::finalize
\* ------------------------------------------------------------------------
\* Node::null_id(), below every hash in the order of nodes
NullId == <<>>

\* the order of nodes (byte strings)
NodeLess(a, b) == PathLess(a, b)

\* mutant of finalize_compute_node: the parent nodes are hashed in the order
\* they are given
finalize_compute_node_unsorted(parent_tree_nodes, content) ==
    LET p1 == IF Len(parent_tree_nodes) >= 1 THEN parent_tree_nodes[1]
              ELSE NullId
        p2 == IF Len(parent_tree_nodes) >= 2 THEN parent_tree_nodes[2]
              ELSE NullId
    IN <<-1, Len(p1)>> \o p1 \o <<Len(p2)>> \o p2 \o content

\* finalize::compute_node: SHA-1 of the two parent nodes, the smaller one
\* first, and the content; the nodes are fixed-width fields of the input and
\* the hash is taken as collision free and apart from the hash of flush
finalize_compute_node(parent_tree_nodes, content) ==
    LET p1 == IF Len(parent_tree_nodes) >= 1 THEN parent_tree_nodes[1]
              ELSE NullId
        p2 == IF Len(parent_tree_nodes) >= 2 THEN parent_tree_nodes[2]
              ELSE NullId
        lo == IF NodeLess(p1, p2) THEN p1 ELSE p2
        hi == IF NodeLess(p1, p2) THEN p2 ELSE p1
    IN <<-1, Len(lo)>> \o lo \o <<Len(hi)>> \o hi \o content

\* Executor { path, converted_nodes, parent_trees }; panicked records that
\* the call was left through unreachable!() or panic!()
Executor(path, converted_nodes, parent_trees) ==
    [path |-> path, converted_nodes |-> converted_nodes,
     parent_trees |-> parent_trees, panicked |-> FALSE]

\* Executor::new: one cursor per parent tree, stepped onto its root
ExecutorNew(parents, st, up) ==
    LET Of(steps) ==
            [ok |-> \A i \in 1..Len(parents) : steps[i].res # "Err",
             ex |-> Executor(<<>>, <<>>,
                             [i \in 1..Len(parents) |-> steps[i].cur])]
    IN Of([i \in 1..Len(parents) |->
              cursor_step(CursorNew(parents[i]), st, up)])

\* mutant of active_parent_tree_nodes: a parent link that is not Durable
\* counts as the null id
active_parent_tree_nodes_lenient(ex, active_parents) ==
    LET link(i) == cursor_link(ex.parent_trees[active_parents[i]])
    IN [ok |-> TRUE,
        nodes |-> [i \in 1..Len(active_parents) |->
                      IF link(i).kind = "Durable" THEN link(i).node
                      ELSE NullId]]

\* Executor::active_parent_tree_nodes: the nodes of the links the active
\* cursors are on; ok is FALSE when one of them is a Leaf or Ephemeral, the
\* unreachable!() arm, and the nodes are not used then
active_parent_tree_nodes(ex, active_parents) ==
    LET link(i) == cursor_link(ex.parent_trees[active_parents[i]])
    IN [ok |-> \A i \in 1..Len(active_parents) : link(i).kind = "Durable",
        nodes |-> [i \in 1..Len(active_parents) |->
                      IF link(i).kind = "Durable" THEN link(i).node
                      ELSE NullId]]

\* Executor::advance_parents: every active cursor takes one step
RECURSIVE advance_parents(_, _, _, _, _)
advance_parents(ex, active_parents, i, st, up) ==
    IF i > Len(active_parents) THEN [ok |-> TRUE, ex |-> ex]
    ELSE LET id == active_parents[i]
             Moved(s, ex2) ==
                 IF s.res = "Err" THEN [ok |-> FALSE, ex |-> ex2]
                 ELSE advance_parents(ex2, active_parents, i + 1, st, up)
             Stepped(s) == Moved(s, [ex EXCEPT !.parent_trees[id] = s.cur])
         IN Stepped(cursor_step(ex.parent_trees[id], st, up))

\* mutant of catch_up: a parent cursor that lags behind is left where it is
catch_up_stay(cur, path, st, up) == [ok |-> TRUE, cur |-> cur]

\* the `while !cursor.finished() && cursor.path() < self.path` loop
RECURSIVE catch_up(_, _, _, _)
catch_up(cur, path, st, up) ==
    LET Stepped(s) == IF s.res = "Err" THEN [ok |-> FALSE, cur |-> s.cur]
                      ELSE catch_up(s.cur, path, st, up)
    IN IF ~cursor_finished(cur) /\ PathLess(cur.path, path)
       THEN Stepped(cursor_step(skip_subtree(cur), st, up))
       ELSE [ok |-> TRUE, cur |-> cur]

\* Executor::parent_trees_for_subdirectory: the active parents that hold a
\* Durable directory at self.path; an Ephemeral one is the panic of the code
RECURSIVE parent_trees_for_subdirectory(_, _, _, _, _, _)
parent_trees_for_subdirectory(ex, active_parents, i, result, st, up) ==
    IF i > Len(active_parents) THEN [ok |-> TRUE, ex |-> ex, result |-> result]
    ELSE LET id == active_parents[i]
             Found(c, ex2, kind) ==
                 IF kind = "Ephemeral"
                 THEN [ok |-> FALSE, ex |-> [ex2 EXCEPT !.panicked = TRUE],
                       result |-> result]
                 ELSE IF ~c.ok
                 THEN [ok |-> FALSE, ex |-> ex2, result |-> result]
                 ELSE parent_trees_for_subdirectory(
                          ex2, active_parents, i + 1,
                          IF kind = "Durable" THEN Append(result, id)
                          ELSE result,
                          st, up)
             At(c) ==
                 Found(c, [ex EXCEPT !.parent_trees[id] = c.cur],
                       IF ~cursor_finished(c.cur) /\ c.cur.path = ex.path
                       THEN cursor_link(c.cur).kind ELSE "Leaf")
         IN At(catch_up(ex.parent_trees[id], ex.path, st, up))

\* mutant of Converted: every tuple carries the path of the root
Converted_at_root(path, node, bytes, parent_tree_nodes) ==
    <<<<>>, node, bytes,
      IF Len(parent_tree_nodes) >= 1 THEN parent_tree_nodes[1] ELSE NullId,
      IF Len(parent_tree_nodes) >= 2 THEN parent_tree_nodes[2] ELSE NullId>>

\* the tuple pushed onto converted_nodes
Converted(path, node, bytes, parent_tree_nodes) ==
    <<path, node, bytes,
      IF Len(parent_tree_nodes) >= 1 THEN parent_tree_nodes[1] ELSE NullId,
      IF Len(parent_tree_nodes) >= 2 THEN parent_tree_nodes[2] ELSE NullId>>

\* mutant of unchanged: every Durable link is taken as unchanged
unchanged_any_durable(link, parent_tree_nodes) == link.kind = "Durable"

\* mutant of unchanged: a Durable link is never taken as unchanged
unchanged_never(link, parent_tree_nodes) == FALSE

\* `if let Durable(entry) = link { if parent_tree_nodes.contains(..) }`
unchanged(link, parent_tree_nodes) ==
    link.kind = "Durable" /\ link.node \in SeqToSet(parent_tree_nodes)

\* Executor::work. work_links is its loop over the children, from index i
\* of keys; an error leaves the directory Ephemeral with the children
\* converted so far.
RECURSIVE work(_, _, _, _, _)
RECURSIVE work_links(_, _, _, _, _, _, _, _)
work_links(ex, links, keys, i, elems, active_parents, st, up) ==
    IF i > Len(keys)
    THEN [ok |-> TRUE, ex |-> ex, links |-> links, entry |-> elems]
    ELSE LET c == keys[i]
             Done1(w, ex2) ==
                 IF ~w.ok
                 THEN [ok |-> FALSE, ex |-> ex2,
                       links |-> MapPut(links, c, w.self), entry |-> elems]
                 ELSE work_links(ex2, MapPut(links, c, w.self), keys, i + 1,
                                 Append(elems, Element(c, w.node, w.flag)),
                                 active_parents, st, up)
             Worked(w) == Done1(w, [w.ex EXCEPT !.path = ex.path])
             Parents(cp) ==
                 IF ~cp.ok
                 THEN [ok |-> FALSE, ex |-> [cp.ex EXCEPT !.path = ex.path],
                       links |-> links, entry |-> elems]
                 ELSE Worked(work(cp.ex, links[c], cp.result, st, up))
         IN Parents(parent_trees_for_subdirectory(
                        [ex EXCEPT !.path = Append(@, c)], active_parents, 1,
                        <<>>, st, up))

\* mutant of work: the tuple of a directory is pushed before the tuples of
\* its children
work_preorder(ex, link, active_parents, st, up) ==
    LET parent_tree_nodes == active_parent_tree_nodes(ex, active_parents).nodes
        a == advance_parents(ex, active_parents, 1, st, up)
        m == mut_ephemeral_links(link, st, up, ex.path)
        l == work_links(a.ex, m.links, SortedKeys(DOMAIN m.links), 1, <<>>,
                        active_parents, st, up)
        node == finalize_compute_node(parent_tree_nodes, EntryBytes(l.entry))
        k == Len(a.ex.converted_nodes)
        all == l.ex.converted_nodes
    IN IF unchanged(link, parent_tree_nodes)
       THEN [ok |-> TRUE, ex |-> ex, self |-> link, node |-> link.node,
             flag |-> "t"]
       ELSE IF ~a.ok
       THEN [ok |-> FALSE, ex |-> a.ex, self |-> link, node |-> NullId,
             flag |-> "t"]
       ELSE IF link.kind = "Leaf"
       THEN [ok |-> TRUE, ex |-> a.ex, self |-> link, node |-> link.meta.node,
             flag |-> link.meta.file_type]
       ELSE IF ~m.ok
       THEN [ok |-> FALSE, ex |-> a.ex, self |-> m.self, node |-> NullId,
             flag |-> "t"]
       ELSE IF ~l.ok
       THEN [ok |-> FALSE, ex |-> l.ex, self |-> Ephemeral(l.links),
             node |-> NullId, flag |-> "t"]
       ELSE [ok |-> TRUE,
             ex |-> [l.ex EXCEPT !.converted_nodes =
                        SubSeq(all, 1, k)
                        \o <<Converted(l.ex.path, node, EntryBytes(l.entry),
                                       parent_tree_nodes)>>
                        \o SubSeq(all, k + 1, Len(all))],
             self |-> Durable(node, LoadedOk(l.links)),
             node |-> node, flag |-> "t"]

work(ex, link, active_parents, st, up) ==
    LET Hashed(parent_tree_nodes, l, node) ==
            [ok |-> TRUE,
             ex |-> [l.ex EXCEPT !.converted_nodes =
                        Append(@, Converted(l.ex.path, node,
                                            EntryBytes(l.entry),
                                            parent_tree_nodes))],
             self |-> Durable(node, LoadedOk(l.links)),
             node |-> node, flag |-> "t"]
        Children(parent_tree_nodes, l) ==
            IF ~l.ok
            THEN [ok |-> FALSE, ex |-> l.ex, self |-> Ephemeral(l.links),
                  node |-> NullId, flag |-> "t"]
            ELSE Hashed(parent_tree_nodes, l,
                        finalize_compute_node(parent_tree_nodes,
                                              EntryBytes(l.entry)))
        Links(parent_tree_nodes, a, m) ==
            IF ~m.ok
            THEN [ok |-> FALSE, ex |-> a.ex, self |-> m.self, node |-> NullId,
                  flag |-> "t"]
            ELSE Children(parent_tree_nodes,
                          work_links(a.ex, m.links, SortedKeys(DOMAIN m.links),
                                     1, <<>>, active_parents, st, up))
        Advanced(parent_tree_nodes, a) ==
            IF ~a.ok
            THEN [ok |-> FALSE, ex |-> a.ex, self |-> link, node |-> NullId,
                  flag |-> "t"]
            ELSE IF link.kind = "Leaf"
            THEN [ok |-> TRUE, ex |-> a.ex, self |-> link,
                  node |-> link.meta.node, flag |-> link.meta.file_type]
            ELSE Links(parent_tree_nodes, a,
                       mut_ephemeral_links(link, st, up, ex.path))
        Nodes(parent_tree_nodes) ==
            IF unchanged(link, parent_tree_nodes)
            THEN [ok |-> TRUE, ex |-> ex, self |-> link, node |-> link.node,
                  flag |-> "t"]
            ELSE Advanced(parent_tree_nodes,
                          advance_parents(ex, active_parents, 1, st, up))
        Parents(p) ==
            IF ~p.ok
            THEN [ok |-> FALSE, ex |-> [ex EXCEPT !.panicked = TRUE],
                  self |-> link, node |-> NullId, flag |-> "t"]
            ELSE Nodes(p.nodes)
    IN Parents(active_parent_tree_nodes(ex, active_parents))

\* Tree::finalize: out is the returned sequence of tuples, parents are the
\* parent trees with the cells their cursors have filled
finalize(root, parents, st, up) ==
    LET Worked(w) ==
            [ok |-> w.ok, panic |-> w.ex.panicked, root |-> w.self,
             out |-> IF w.ok THEN w.ex.converted_nodes ELSE <<>>,
             parents |-> [i \in 1..Len(parents) |->
                             w.ex.parent_trees[i].root]]
        Started(n) ==
            IF ~n.ok
            THEN [ok |-> FALSE, panic |-> FALSE, root |-> root, out |-> <<>>,
                  parents |-> [i \in 1..Len(parents) |->
                                  n.ex.parent_trees[i].root]]
            ELSE Worked(work(n.ex, root, [i \in 1..Len(parents) |-> i],
                             st, up))
    IN Started(ExecutorNew(parents, st, up))

\* ------------------------------------------------------------------------
\* Operations on one tree value
\* ------------------------------------------------------------------------
\* no finalize call yet: edits and calls count the operations of a run of
\* finalize calls, parents are the root nodes the last call was given
NoFin == [edits |-> 0, calls |-> 0, parents |-> <<>>, ok |-> TRUE]

\* SegmentedChangelogBuilder::new: no idmap_version; nothing is stored and
\* no seeder was built
NoSeeding == [idmap_version |-> None, stored |-> None,
              seeder |-> [kind |-> "none"]]

\* Tree::ephemeral(store) over an empty store
TreeStart ==
    /\ tree = Ephemeral(NoLinks)
    /\ store = [k \in {} |-> <<>>]
    /\ storeUp = TRUE
    /\ tlast = [n |-> 0, op |-> "new", path |-> <<>>, meta |-> <<>>,
                ok |-> TRUE, err |-> "", ret |-> <<>>, writes |-> 0]
    /\ ptrees = <<>>
    /\ fin = NoFin
    /\ seeding = NoSeeding
    /\ storeCap = None

\* ret is what the call returned, as a sequence: <<>> for None or nothing,
\* <<x>> for Some(x) or a node x; writes counts the insert_entry calls
DoneRet(op, path, meta, ok, err, ret, writes) ==
    tlast' = [n |-> tlast.n + 1, op |-> op, path |-> path, meta |-> meta,
              ok |-> ok, err |-> err, ret |-> ret, writes |-> writes]

Done(op, path, meta, ok, err) == DoneRet(op, path, meta, ok, err, <<>>, 0)

TreeGet(path) ==
    /\ tlast.n < MaxOps
    /\ LET r == get(tree, store, storeUp, path)
       IN /\ tree' = r.root
          /\ Done("get", path, <<>>, r.res.kind # "Err", r.res.kind)
    /\ UNCHANGED <<store, storeUp, scVars, finVars>>

TreeInsert(path, meta) ==
    /\ tlast.n < MaxOps
    /\ LET r == insert(tree, store, storeUp, path, meta)
       IN /\ tree' = r.root
          /\ Done("insert", path, meta, r.ok, r.err)
    /\ UNCHANGED <<store, storeUp, scVars, finVars>>

TreeRemove(path) ==
    /\ tlast.n < MaxOps
    /\ LET r == remove(tree, store, storeUp, path)
       IN /\ tree' = r.root
          /\ DoneRet("remove", path, <<>>, r.ok,
                     IF r.ok THEN "" ELSE "store", r.ret, 0)
    /\ UNCHANGED <<store, storeUp, scVars, finVars>>

TreeFiles ==
    /\ tlast.n < MaxOps
    /\ LET r == files(tree, store, storeUp)
       IN /\ tree' = r.root
          /\ DoneRet("files", <<>>, <<>>, r.ok,
                     IF r.ok THEN "" ELSE "store", r.files, 0)
    /\ UNCHANGED <<store, storeUp, scVars, finVars>>

\* tree.finalize(vec![]) on the working tree
TreeFinalize ==
    /\ tlast.n < MaxOps
    /\ LET r == finalize(tree, ptrees, store, storeUp)
       IN /\ tree' = r.root
          /\ ptrees' = r.parents
          /\ fin' = [fin EXCEPT !.calls = @ + 1, !.ok = r.ok]
          /\ DoneRet("finalize", <<>>, <<>>, r.ok,
                     IF r.ok THEN "" ELSE "store", r.out, 0)
    /\ UNCHANGED <<store, storeUp, scVars>>

TreeFlush ==
    /\ tlast.n < MaxOps
    /\ LET r == flush(tree, store, storeUp)
       IN /\ tree' = r.self
          /\ store' = r.store
          /\ DoneRet("flush", <<>>, <<>>, r.ok, IF r.ok THEN "" ELSE "store",
                     IF r.ok THEN <<r.node>> ELSE <<>>, r.writes)
    /\ UNCHANGED <<storeUp, scVars, finVars>>

\* Tree::durable(store, node) for the root node a flush returned
TreeReopen ==
    /\ tlast.n < MaxOps
    /\ tree.kind = "Durable"
    /\ tree' = LinkDurable(tree.node)
    /\ Done("durable", <<>>, <<>>, TRUE, "")
    /\ UNCHANGED <<store, storeUp, scVars, finVars>>

\* the blob store becomes unreachable, or reachable again
StoreFlip ==
    /\ storeUp' = ~storeUp
    /\ UNCHANGED <<tree, store, tlast, scVars, finVars>>

InitTree ==
    /\ parentsOf = [c \in Commits |-> <<>>]
    /\ idmap = {}
    /\ iddag = <<>>
    /\ run = [r \in Procs |-> IdleRun]
    /\ last = NoLast
    /\ asg = NoAsg
    /\ TreeStart

NextTree ==
    \/ \E path \in Paths : TreeGet(path)
    \/ \E path \in Paths, meta \in Metas : TreeInsert(path, meta)
    \/ \E path \in Paths : TreeRemove(path)
    \/ TreeFiles
    \/ TreeFinalize
    \/ TreeFlush
    \/ TreeReopen
    \/ StoreFlip

SpecTree == InitTree /\ [][NextTree]_vars

\* ------------------------------------------------------------------------
\* compat_subtree_diff
\* ------------------------------------------------------------------------
\* mutant of others_add: the nodes of the entry are recorded under every
\* component
others_add_any_component(map, entry, i) ==
    [c \in Components |->
        (IF c \in DOMAIN map THEN map[c] ELSE <<>>)
            \o [j \in 1..Len(entry) |-> entry[j].node]]

\* others_map.entry(component).or_insert(vec![]).push(node), for the
\* elements of one entry
RECURSIVE others_add(_, _, _)
others_add(map, entry, i) ==
    IF i > Len(entry) THEN map
    ELSE LET c == entry[i].component
         IN others_add(MapPut(map, c,
                              Append(IF c \in DOMAIN map THEN map[c] ELSE <<>>,
                                     entry[i].node)),
                       entry, i + 1)

\* the `for other_node in other_nodes` loop: the entries of the other nodes
\* are read and their elements collected by component
RECURSIVE others_map(_, _, _, _, _, _, _)
others_map(st, up, path, other_nodes, i, map, reads) ==
    IF i > Len(other_nodes) THEN [ok |-> TRUE, map |-> map, reads |-> reads]
    ELSE LET Got(g) ==
                 IF ~g.ok THEN [ok |-> FALSE, map |-> map, reads |-> reads + 1]
                 ELSE others_map(st, up, path, other_nodes, i + 1,
                                 others_add(map, g.entry, 1), reads + 1)
         IN Got(get_entry(st, up, path, other_nodes[i]))

\* Vec::dedup: runs of equal neighbours are cut to one
RECURSIVE dedup(_)
dedup(s) ==
    IF Len(s) < 2 THEN s
    ELSE IF s[1] = s[2] THEN dedup(Tail(s))
    ELSE <<s[1]>> \o dedup(Tail(s))

\* mutant of subtree_push: the triple of a directory comes before the
\* triples of the directories below it
subtree_push_first(result, path, node, entry) ==
    <<<<path, node, EntryBytes(entry)>>>> \o result

\* self.result.push((self.path.clone(), node, entry.to_bytes()))
subtree_push(result, path, node, entry) ==
    Append(result, <<path, node, EntryBytes(entry)>>)

\* State::work and its loop over the elements of the entry; the result is
\* the list of the triples pushed, reads counts the get_entry calls
RECURSIVE subtree_work(_, _, _, _, _, _, _, _)
RECURSIVE subtree_elements(_, _, _, _, _, _, _, _, _)
subtree_elements(st, up, path, entry, i, map, depth_remaining, result, reads) ==
    IF i > Len(entry) THEN [ok |-> TRUE, result |-> result, reads |-> reads]
    ELSE LET element == entry[i]
             Rest(w, map2) ==
                 IF ~w.ok THEN w
                 ELSE subtree_elements(st, up, path, entry, i + 1, map2,
                                       depth_remaining, w.result, w.reads)
             Child(others, map2) ==
                 IF element.node \in SeqToSet(others)
                 THEN Rest([ok |-> TRUE, result |-> result, reads |-> reads],
                           map2)
                 ELSE Rest(subtree_work(st, up,
                                        Append(path, element.component),
                                        element.node, dedup(others),
                                        depth_remaining - 1, result, reads),
                           map2)
         IN IF element.flag # "t"
            THEN Rest([ok |-> TRUE, result |-> result, reads |-> reads], map)
            ELSE Child(IF element.component \in DOMAIN map
                       THEN map[element.component] ELSE <<>>,
                       IF element.component \in DOMAIN map
                       THEN MapDel(map, element.component) ELSE map)

subtree_work(st, up, path, node, other_nodes, depth_remaining, result, reads) ==
    LET Pushed(w, entry) ==
            IF ~w.ok THEN w
            ELSE [ok |-> TRUE, reads |-> w.reads,
                  result |-> subtree_push(w.result, path, node, entry)]
        Mapped(m, entry) ==
            IF ~m.ok THEN [ok |-> FALSE, result |-> result, reads |-> m.reads]
            ELSE Pushed(subtree_elements(st, up, path, entry, 1, m.map,
                                         depth_remaining, result, m.reads),
                        entry)
        Got(g) ==
            IF ~g.ok THEN [ok |-> FALSE, result |-> result, reads |-> reads + 1]
            ELSE IF depth_remaining > 0
            THEN Mapped(others_map(st, up, path, other_nodes, 1, EmptyMap,
                                   reads + 1),
                        g.entry)
            ELSE Pushed([ok |-> TRUE, result |-> result, reads |-> reads + 1],
                        g.entry)
    IN Got(get_entry(st, up, path, node))

\* mutant of initial_depth_remaining: one level more than asked for
initial_depth_remaining_whole(depth) == depth

\* depth_remaining: depth - 1
initial_depth_remaining(depth) == depth - 1

\* mutant of compat_subtree_diff: no answer without the walk
compat_subtree_diff_always_walks(st, up, path, node, other_nodes, depth) ==
    LET Of(w) == [ok |-> w.ok, reads |-> w.reads,
                  result |-> IF w.ok THEN w.result ELSE <<>>]
    IN Of(subtree_work(st, up, path, node, other_nodes,
                       initial_depth_remaining(depth), <<>>, 0))

\* compat_subtree_diff: Ok(result) or the error of the store
compat_subtree_diff(st, up, path, node, other_nodes, depth) ==
    LET Of(w) == [ok |-> w.ok, reads |-> w.reads,
                  result |-> IF w.ok THEN w.result ELSE <<>>]
    IN IF node \in SeqToSet(other_nodes)
       THEN [ok |-> TRUE, reads |-> 0, result |-> <<>>]
       ELSE Of(subtree_work(st, up, path, node, other_nodes,
                            initial_depth_remaining(depth), <<>>, 0))

\* ------------------------------------------------------------------------
\* A tree that is built, written out, reopened and then listed with a matcher
\* ------------------------------------------------------------------------
\* the tree is built until a listing has run to the end
FilesOpen == tlast.n < MaxOps + 1 /\ ~(tlast.op = "files" /\ tlast.ok)

FilesInsert(path, meta) ==
    /\ FilesOpen
    /\ LET r == insert(tree, store, storeUp, path, meta)
       IN /\ r.ok /\ r.root # tree
          /\ tree' = r.root
          /\ Done("insert", <<>>, <<>>, TRUE, "")
    /\ UNCHANGED <<store, storeUp, scVars, finVars>>

FilesFlush ==
    /\ FilesOpen
    /\ tree.kind = "Ephemeral"
    /\ LET r == flush(tree, store, storeUp)
       IN /\ r.ok
          /\ tree' = r.self
          /\ store' = r.store
          /\ Done("flush", <<>>, <<>>, TRUE, "")
    /\ UNCHANGED <<storeUp, scVars, finVars>>

FilesReopen ==
    /\ FilesOpen
    /\ tlast.op = "flush"
    /\ tree' = LinkDurable(tree.node)
    /\ Done("durable", <<>>, <<>>, TRUE, "")
    /\ UNCHANGED <<store, storeUp, scVars, finVars>>

FilesStoreFlip ==
    /\ FilesOpen
    /\ tlast.op \in {"durable", "files"}
    /\ storeUp' = ~storeUp
    /\ UNCHANGED <<tree, store, tlast, scVars, finVars>>

\* tree.files(&matcher).collect()
FilesList(matcher) ==
    /\ FilesOpen
    /\ LET r == files_matching(tree, matcher, store, storeUp)
       IN /\ tree' = r.root
          /\ DoneRet("files", <<>>, matcher, r.ok,
                     IF r.ok THEN "" ELSE "store", r.files, 0)
    /\ UNCHANGED <<store, storeUp, scVars, finVars>>

NextFiles ==
    \/ \E path \in Paths, meta \in Metas : FilesInsert(path, meta)
    \/ FilesFlush
    \/ FilesReopen
    \/ FilesStoreFlip
    \/ \E matcher \in Matchers : FilesList(matcher)

SpecFiles == InitTree /\ [][NextFiles]_vars

\* ------------------------------------------------------------------------
\* Versions of a tree are written to the store and compared by
\* compat_subtree_diff
\* ------------------------------------------------------------------------
SubtreeOpen == tlast.n < MaxOps + 2 /\ tlast.op # "compat_subtree_diff"

SubtreeInsert(path, meta) ==
    /\ SubtreeOpen
    /\ fin.edits < MaxEdits
    /\ get(tree, store, storeUp, path).res.kind = "File" \/ meta = NewFileMeta
    /\ LET r == insert(tree, store, storeUp, path, meta)
       IN /\ r.ok /\ r.root # tree
          /\ tree' = r.root
          /\ Done("insert", <<>>, <<>>, TRUE, "")
    /\ fin' = [fin EXCEPT !.edits = @ + 1]
    /\ UNCHANGED <<store, storeUp, scVars, ptrees>>

SubtreeRemove(path) ==
    /\ SubtreeOpen
    /\ fin.edits < MaxEdits
    /\ LET r == remove(tree, store, storeUp, path)
       IN /\ r.ok /\ r.root # tree
          /\ tree' = r.root
          /\ Done("remove", <<>>, <<>>, TRUE, "")
    /\ fin' = [fin EXCEPT !.edits = @ + 1]
    /\ UNCHANGED <<store, storeUp, scVars, ptrees>>

SubtreeFlush ==
    /\ SubtreeOpen
    /\ tree.kind = "Ephemeral"
    /\ LET r == flush(tree, store, storeUp)
       IN /\ r.ok
          /\ tree' = r.self
          /\ store' = r.store
          /\ Done("flush", <<>>, <<>>, TRUE, "")
    /\ UNCHANGED <<storeUp, scVars, finVars>>

\* the nodes the store holds an entry for at a path, and the null id, for
\* which it holds none
NodesAt(st, path) ==
    LET held == {k[2] : k \in {x \in DOMAIN st : x[1] = path}}
    IN IF held = {} THEN {} ELSE held \cup {NullId}

\* the lists of nodes a peer names: none, one, or two that the store holds
OtherNodes(st, path) ==
    {<<>>} \cup {<<a>> : a \in NodesAt(st, path)}
           \cup {o \in (NodesAt(st, path) \ {NullId})
                          \X (NodesAt(st, path) \ {NullId}) : o[1] # o[2]}

\* the node of the directory the flushed tree has at path, and the null id
CallNodes(root, st, path) ==
    LET Named(w) == IF w.st = "found" /\ w.cursor.kind = "Durable"
                    THEN {w.cursor.node, NullId} ELSE {}
    IN Named(walk(root, st, TRUE, <<>>, path))

\* the calls for a directory of the tree that was just written out, against
\* the versions of it the store holds
SubtreeCalls(root, st) ==
    UNION {{[path |-> path, node |-> node, other_nodes |-> other_nodes] :
               node \in CallNodes(root, st, path),
               other_nodes \in OtherNodes(st, path)} :
           path \in {p \in Paths : Len(p) <= MaxCallDepth}}

\* the depths asked for, from none to one more than the directory levels a
\* tree has
Depths == 0..(MaxDepth + 1)

\* compat_subtree_diff(store, path, node, other_nodes, depth); it reads
\* nothing but the store, so it is called when the store has changed
SubtreeDiff(path, node, other_nodes, depth) ==
    /\ tlast.op = "flush"
    /\ LET r == compat_subtree_diff(store, storeUp, path, node, other_nodes,
                                    depth)
       IN DoneRet("compat_subtree_diff", path,
                  [node |-> node, other_nodes |-> other_nodes,
                   depth |-> depth, reads |-> r.reads],
                  r.ok, IF r.ok THEN "" ELSE "store", r.result, 0)
    /\ UNCHANGED <<tree, store, storeUp, scVars, finVars>>

NextSubtree ==
    \/ \E path \in Paths, meta \in Metas : SubtreeInsert(path, meta)
    \/ \E path \in Paths : SubtreeRemove(path)
    \/ SubtreeFlush
    \/ \E call \in SubtreeCalls(tree, store), depth \in Depths :
          SubtreeDiff(call.path, call.node, call.other_nodes, depth)

SpecSubtree == InitTree /\ [][NextSubtree]_vars

\* ------------------------------------------------------------------------
\* diff: the depth-first Diff and the breadth-first BfsDiff
\* ------------------------------------------------------------------------
\* DiffEntry { path, diff_type }
LeftOnly(path, meta) == <<path, "LeftOnly", meta>>

RightOnly(path, meta) == <<path, "RightOnly", meta>>

Changed(path, l, r) == <<path, "Changed", l, r>>

ChildOrNone(link, c) ==
    IF c \in DOMAIN ChildLinks(link) THEN ChildLinks(link)[c] ELSE NoLink

\* two Durable directories with one hash: the subtrees are taken as equal
SameDurable(l, r) ==
    l.kind = "Durable" /\ r.kind = "Durable" /\ l.node = r.node

\* the entries of the files at a path: a file of one side only, or a file of
\* both sides with different metadata
file_entries(l, r, path, matcher) ==
    IF ~matches_file(matcher, path) THEN <<>>
    ELSE IF l.kind = "Leaf" /\ r.kind = "Leaf"
    THEN IF l.meta = r.meta THEN <<>> ELSE <<Changed(path, l.meta, r.meta)>>
    ELSE (IF l.kind = "Leaf" THEN <<LeftOnly(path, l.meta)>> ELSE <<>>)
            \o (IF r.kind = "Leaf" THEN <<RightOnly(path, r.meta)>> ELSE <<>>)

\* the directory of a side at a path, or no link when the side has a file
\* or nothing there
DirOrNone(link) == IF link.kind \in {"Ephemeral", "Durable"} THEN link ELSE NoLink

\* Diff: depth first, the entries below a child before the next child
RECURSIVE dfs_diff(_, _, _, _)
RECURSIVE dfs_children(_, _, _, _, _)
dfs_children(l, r, path, matcher, cs) ==
    IF cs = <<>> THEN <<>>
    ELSE LET c == cs[1]
             Both(cl, cr) ==
                 file_entries(cl, cr, Append(path, c), matcher)
                    \o dfs_diff(DirOrNone(cl), DirOrNone(cr),
                                Append(path, c), matcher)
         IN Both(ChildOrNone(l, c), ChildOrNone(r, c))
               \o dfs_children(l, r, path, matcher, Tail(cs))

dfs_diff(l, r, path, matcher) ==
    IF l = NoLink /\ r = NoLink THEN <<>>
    ELSE IF SameDurable(l, r) THEN <<>>
    ELSE IF matches_directory(matcher, path) = "Nothing" THEN <<>>
    ELSE dfs_children(l, r, path, matcher,
                      SortedKeys(DOMAIN ChildLinks(l) \cup DOMAIN ChildLinks(r)))

\* BfsDiff: a queue of pairs of directories; the files of a pair are
\* compared when the pair is taken, the directories below it are enqueued
RECURSIVE bfs_enqueue(_, _, _, _)
bfs_enqueue(l, r, path, cs) ==
    IF cs = <<>> THEN <<>>
    ELSE LET c == cs[1]
             Pair(dl, dr) ==
                 IF (dl = NoLink /\ dr = NoLink) \/ SameDurable(dl, dr) THEN <<>>
                 ELSE <<[left |-> dl, right |-> dr, path |-> Append(path, c)]>>
         IN Pair(DirOrNone(ChildOrNone(l, c)), DirOrNone(ChildOrNone(r, c)))
               \o bfs_enqueue(l, r, path, Tail(cs))

RECURSIVE bfs_files(_, _, _, _, _)
bfs_files(l, r, path, matcher, cs) ==
    IF cs = <<>> THEN <<>>
    ELSE file_entries(ChildOrNone(l, cs[1]), ChildOrNone(r, cs[1]),
                      Append(path, cs[1]), matcher)
            \o bfs_files(l, r, path, matcher, Tail(cs))

RECURSIVE bfs_loop(_, _, _)
bfs_loop(queue, matcher, acc) ==
    IF queue = <<>> THEN acc
    ELSE LET Take(p, cs) ==
                 IF matches_directory(matcher, p.path) = "Nothing"
                 THEN bfs_loop(Tail(queue), matcher, acc)
                 ELSE bfs_loop(Tail(queue)
                                  \o bfs_enqueue(p.left, p.right, p.path, cs),
                               matcher,
                               acc \o bfs_files(p.left, p.right, p.path,
                                                matcher, cs))
             Of(p) == Take(p, SortedKeys(DOMAIN ChildLinks(p.left)
                                            \cup DOMAIN ChildLinks(p.right)))
         IN Of(queue[1])

bfs_diff(l, r, matcher) ==
    IF SameDurable(l, r) THEN <<>>
    ELSE bfs_loop(<<[left |-> l, right |-> r, path |-> <<>>]>>, matcher, <<>>)

\* mutant of diff: the breadth-first variant is handed the trees the other
\* way round
diff_bfs_swapped(left, right, matcher, bfs) ==
    IF bfs THEN bfs_diff(right, left, matcher)
    ELSE dfs_diff(left, right, <<>>, matcher)

\* diff(left, right, matcher, bfs_diff), collected
diff(left, right, matcher, bfs) ==
    IF bfs THEN bfs_diff(left, right, matcher)
    ELSE dfs_diff(left, right, <<>>, matcher)

\* ------------------------------------------------------------------------
\* A tree is edited, a copy of it is kept, and the two are compared
\* ------------------------------------------------------------------------
DiffOpen == tlast.n < MaxOps + 1 /\ tlast.op # "diff"

DiffInsert(path, meta) ==
    /\ DiffOpen
    /\ get(tree, store, storeUp, path).res.kind = "File" \/ meta = NewFileMeta
    /\ LET r == insert(tree, store, storeUp, path, meta)
       IN /\ r.ok /\ r.root # tree
          /\ tree' = r.root
          /\ Done("insert", <<>>, <<>>, TRUE, "")
    /\ UNCHANGED <<store, storeUp, ptrees, scVars, fin>>

DiffRemove(path) ==
    /\ DiffOpen
    /\ LET r == remove(tree, store, storeUp, path)
       IN /\ r.ok /\ r.ret # <<>>
          /\ tree' = r.root
          /\ Done("remove", <<>>, <<>>, TRUE, "")
    /\ UNCHANGED <<store, storeUp, ptrees, scVars, fin>>

DiffFlush ==
    /\ DiffOpen
    /\ tree.kind = "Ephemeral"
    /\ LET r == flush(tree, store, storeUp)
       IN /\ r.ok
          /\ tree' = r.self
          /\ store' = r.store
          /\ Done("flush", <<>>, <<>>, TRUE, "")
    /\ UNCHANGED <<storeUp, ptrees, scVars, fin>>

\* tree.clone(): the copy is the left side of the comparison
DiffKeep ==
    /\ DiffOpen
    /\ ptrees = <<>>
    /\ ptrees' = <<tree>>
    /\ UNCHANGED <<tree, store, storeUp, tlast, scVars, fin>>

\* diff(&left, &tree, &matcher, bfs).collect()
DiffRun(matcher, bfs) ==
    /\ DiffOpen
    /\ ptrees # <<>>
    /\ DoneRet("diff", <<>>, [matcher |-> matcher, bfs |-> bfs], TRUE, "",
               diff(ptrees[1], tree, matcher, bfs), 0)
    /\ UNCHANGED <<tree, store, storeUp, ptrees, scVars, fin>>

NextDiff ==
    \/ \E path \in Paths, meta \in Metas : DiffInsert(path, meta)
    \/ \E path \in Paths : DiffRemove(path)
    \/ DiffFlush
    \/ DiffKeep
    \/ \E matcher \in Matchers, bfs \in BOOLEAN : DiffRun(matcher, bfs)

SpecDiff == InitTree /\ [][NextDiff]_vars

\* ------------------------------------------------------------------------
\* A tree is built, written out and reopened; the reopened tree is read and
\* edited while the store comes and goes
\* ------------------------------------------------------------------------
\* the tree is still the one under construction
LazyBuilding == tlast.op \in {"new", "build"}

LazyBudget == tlast.n < MaxOps + 1

\* a call is made on the reopened tree, after the condition of the store
\* has been set
LazyReady == LazyBudget /\ tlast.op = "store"

LazyBuild(path) ==
    /\ LazyBuilding
    /\ fin.edits < MaxEdits
    /\ LET r == insert(tree, store, storeUp, path, NewFileMeta)
       IN /\ r.ok /\ r.root # tree
          /\ tree' = r.root
    /\ tlast' = [tlast EXCEPT !.op = "build"]
    /\ fin' = [fin EXCEPT !.edits = @ + 1]
    /\ UNCHANGED <<store, storeUp, ptrees, scVars>>

LazyFlush ==
    /\ LazyBuilding
    /\ LET r == flush(tree, store, storeUp)
       IN /\ r.ok
          /\ tree' = r.self
          /\ store' = r.store
          /\ DoneRet("flush", <<>>, <<>>, TRUE, "", <<r.node>>, r.writes)
    /\ UNCHANGED <<storeUp, scVars, finVars>>

LazyReopen ==
    /\ tlast.op = "flush" /\ tlast.ok
    /\ tree' = LinkDurable(tree.node)
    /\ Done("durable", <<>>, <<>>, TRUE, "")
    /\ UNCHANGED <<store, storeUp, scVars, finVars>>

LazyStoreFlip ==
    /\ ~LazyBuilding
    /\ tlast.op = "flush" => tlast.n > 1
    /\ LazyBudget
    /\ storeUp' = ~storeUp
    /\ tlast' = [n |-> tlast.n, op |-> "store", path |-> <<>>, meta |-> <<>>,
                 ok |-> TRUE, err |-> "", ret |-> <<>>, writes |-> 0]
    /\ UNCHANGED <<tree, store, scVars, finVars>>

LazyGet(path) ==
    /\ LazyReady
    /\ LET r == get(tree, store, storeUp, path)
       IN /\ tree' = r.root
          /\ DoneRet("get", path, <<>>, r.res.kind # "Err", r.res.kind,
                     <<r.res>>, 0)
    /\ UNCHANGED <<store, storeUp, scVars, finVars>>

LazyList(path) ==
    /\ LazyReady
    /\ LET r == list(tree, store, storeUp, path)
       IN /\ tree' = r.root
          /\ DoneRet("list", path, <<>>, r.res.kind # "Err", r.res.kind,
                     <<r.res>>, 0)
    /\ UNCHANGED <<store, storeUp, scVars, finVars>>

LazyFiles ==
    /\ LazyReady
    /\ LET r == files(tree, store, storeUp)
       IN /\ tree' = r.root
          /\ DoneRet("files", <<>>, <<>>, r.ok, IF r.ok THEN "" ELSE "store",
                     r.files, 0)
    /\ UNCHANGED <<store, storeUp, scVars, finVars>>

LazyInsert(path, meta) ==
    /\ LazyReady
    /\ LET r == insert(tree, store, storeUp, path, meta)
       IN /\ tree' = r.root
          /\ Done("insert", path, meta, r.ok, r.err)
    /\ UNCHANGED <<store, storeUp, scVars, finVars>>

LazyRemove(path) ==
    /\ LazyReady
    /\ LET r == remove(tree, store, storeUp, path)
       IN /\ tree' = r.root
          /\ DoneRet("remove", path, <<>>, r.ok,
                     IF r.ok THEN "" ELSE "store", r.ret, 0)
    /\ UNCHANGED <<store, storeUp, scVars, finVars>>

NextLazy ==
    \/ \E path \in Paths : LazyBuild(path)
    \/ LazyFlush
    \/ LazyReopen
    \/ LazyStoreFlip
    \/ \E path \in Paths : LazyGet(path)
    \/ \E path \in Paths : LazyList(path)
    \/ LazyFiles
    \/ \E path \in Paths : LazyInsert(path, NewFileMeta)
    \/ \E path \in Paths : LazyRemove(path)

SpecLazy == InitTree /\ [][NextLazy]_vars

\* ------------------------------------------------------------------------
\* The reopened tree is also written out again and finalized
\* ------------------------------------------------------------------------
SpineFlush ==
    /\ LazyReady
    /\ LET r == flush(tree, store, storeUp)
       IN /\ tree' = r.self
          /\ store' = r.store
          /\ DoneRet("flush", <<>>, <<>>, r.ok, IF r.ok THEN "" ELSE "store",
                     IF r.ok THEN <<r.node>> ELSE <<>>, r.writes)
    /\ UNCHANGED <<storeUp, scVars, finVars>>

SpineFinalize ==
    /\ LazyReady
    /\ LET r == finalize(tree, ptrees, store, storeUp)
       IN /\ tree' = r.root
          /\ ptrees' = r.parents
          /\ DoneRet("finalize", <<>>, <<>>, r.ok,
                     IF r.ok THEN "" ELSE "store", r.out, 0)
    /\ UNCHANGED <<store, storeUp, scVars, fin>>

NextSpine ==
    \/ NextLazy
    \/ SpineFlush
    \/ SpineFinalize

SpecSpine == InitTree /\ [][NextSpine]_vars

\* ------------------------------------------------------------------------
\* A working tree that is edited and finalized against kept parents
\* ------------------------------------------------------------------------
\* every directory of the tree is Durable (flushed or finalized)
RECURSIVE AllDurable(_)
AllDurable(link) ==
    \/ link.kind = "Leaf"
    \/ /\ link.kind = "Durable"
       /\ \A c \in DOMAIN ChildLinks(link) : AllDurable(ChildLinks(link)[c])

RootNodes(trees) ==
    [i \in 1..Len(trees) |->
        IF trees[i].kind = "Durable" THEN trees[i].node ELSE NullId]

\* the edits of this run are the ones that change the tree and that a
\* finalize call can follow: a new file is inserted with NewFileMeta, a file
\* that exists is overwritten with other metadata
FinInsert(path, meta) ==
    /\ fin.edits < MaxEdits /\ fin.calls < MaxFinalize
    /\ get(tree, store, storeUp, path).res.kind = "File" \/ meta = NewFileMeta
    /\ LET r == insert(tree, store, storeUp, path, meta)
       IN /\ r.ok /\ r.root # tree
          /\ tree' = r.root
          /\ Done("insert", path, meta, r.ok, r.err)
    /\ fin' = [fin EXCEPT !.edits = @ + 1]
    /\ UNCHANGED <<store, storeUp, ptrees, scVars>>

FinRemove(path) ==
    /\ fin.edits < MaxEdits /\ fin.calls < MaxFinalize
    /\ LET r == remove(tree, store, storeUp, path)
       IN /\ r.ok /\ r.ret # <<>>
          /\ tree' = r.root
          /\ DoneRet("remove", path, <<>>, r.ok,
                     IF r.ok THEN "" ELSE "store", r.ret, 0)
    /\ fin' = [fin EXCEPT !.edits = @ + 1]
    /\ UNCHANGED <<store, storeUp, ptrees, scVars>>

\* tree.finalize(parents) with the kept trees as parents
FinFinalize ==
    /\ fin.calls < MaxFinalize
    /\ LET r == finalize(tree, ptrees, store, storeUp)
       IN /\ tree' = r.root
          /\ ptrees' = r.parents
          /\ fin' = [fin EXCEPT !.calls = @ + 1,
                                !.parents = RootNodes(ptrees),
                                !.ok = r.ok]
          /\ DoneRet("finalize", <<>>, <<>>, r.ok,
                     IF r.panic THEN "panic"
                     ELSE IF r.ok THEN "" ELSE "store", r.out, 0)
    /\ UNCHANGED <<store, storeUp, scVars>>

\* `tree.clone()` of a finalized tree is kept as a parent for later calls
FinKeep ==
    /\ Len(ptrees) < 2
    /\ tlast.op = "finalize" /\ tlast.ok
    /\ AllDurable(tree)
    /\ tree.node \notin SeqToSet(RootNodes(ptrees))
    /\ ptrees' = Append(ptrees, tree)
    /\ UNCHANGED <<tree, store, storeUp, tlast, fin, scVars>>

\* the caller writes the tuples finalize returned to the store
RECURSIVE store_all(_, _, _)
store_all(st, tuples, i) ==
    IF i > Len(tuples) THEN st
    ELSE store_all(store_insert(st, tuples[i][1], tuples[i][2], tuples[i][3]),
                   tuples, i + 1)

InitFinalize == InitTree

NextFinalize ==
    \/ \E path \in Paths, meta \in Metas : FinInsert(path, meta)
    \/ \E path \in Paths : FinRemove(path)
    \/ FinFinalize
    \/ FinKeep

SpecFinalize == InitFinalize /\ [][NextFinalize]_vars

\* ------------------------------------------------------------------------
\* The store runs out of room while the tree is written out, and the
\* flushed tree is kept as the parent of the later finalize calls
\* ------------------------------------------------------------------------
\* the store has room for k more blobs
PartialStoreFill(k) ==
    /\ storeCap = None
    /\ LazyReady /\ storeUp
    /\ tree.kind = "Ephemeral"
    /\ storeCap' = Cardinality(DOMAIN store) + k
    /\ UNCHANGED <<parentsOf, idmap, iddag, run, last, asg, seeding, tree,
                   store, storeUp, tlast, ptrees, fin>>

\* `tree.clone()` of the tree as it was reopened is kept as the parent
PartialKeep ==
    /\ ptrees = <<>>
    /\ tlast.op = "durable"
    /\ ptrees' = <<tree>>
    /\ UNCHANGED <<parentsOf, idmap, iddag, run, last, asg, seeding, tree,
                   store, storeUp, tlast, fin, storeCap>>

NextPartial ==
    \/ \E path \in Paths : LazyBuild(path)
    \/ LazyFlush
    \/ LazyReopen
    \/ PartialKeep
    \/ LazyStoreFlip
    \/ \E k \in 0..1 : PartialStoreFill(k)
    \/ \E path \in Paths : LazyGet(path)
    \/ \E path \in Paths : LazyInsert(path, NewFileMeta)
    \/ SpineFlush
    \/ SpineFinalize

SpecPartial == InitTree /\ [][NextPartial]_vars

\* ------------------------------------------------------------------------
\* A tree is cloned and the clone is edited, flushed and finalized
\* ------------------------------------------------------------------------
\* mutant of SharedCells: the clone shares its links with the tree it was
\* cloned from, so the tree follows the clone
SharedCells_in_place(a, b0, b1) == IF a = b0 THEN b1 ELSE a

\* Link is cloned with the tree (derive Clone): an Ephemeral map is copied,
\* a Durable link is an Arc of the same DurableEntry and so of the same cell.
\* a is a link of the tree that was cloned, b0 and b1 are the links at the
\* same path of the clone before and after a call on the clone; the result is
\* a with the cells the call has filled in the entries both trees hold.
\* A cell the call has loaded and then replaced by an Ephemeral copy in the
\* clone stays Unloaded in a: it would hold the links the store holds.
RECURSIVE SharedCells(_, _, _)
SharedCells(a, b0, b1) ==
    LET IsDirectory(l) == l.kind \in {"Ephemeral", "Durable"}
        common == DOMAIN ChildLinks(a) \cap DOMAIN ChildLinks(b0)
                     \cap DOMAIN ChildLinks(b1)
        links == [c \in DOMAIN ChildLinks(a) |->
                     IF c \in common
                     THEN SharedCells(ChildLinks(a)[c], ChildLinks(b0)[c],
                                      ChildLinks(b1)[c])
                     ELSE ChildLinks(a)[c]]
    IN IF a.kind = "Durable" /\ a = b0 /\ b1.kind = "Durable"
          /\ b1.node = a.node
       THEN b1
       ELSE IF IsDirectory(a) /\ IsDirectory(b0) /\ IsDirectory(b1)
               /\ common # {}
       THEN IF a.kind = "Ephemeral" THEN Ephemeral(links)
            ELSE Durable(a.node, LoadedOk(links))
       ELSE a

\* ptrees[1] is the tree that was cloned and ptrees[2] is that tree as it
\* was at the clone. fin.ok tells that no call on the clone has failed since.
CloneReady == LazyReady /\ ptrees # <<>>

CloneAfter(new, ok) ==
    /\ ptrees' = <<SharedCells(ptrees[1], tree, new), ptrees[2]>>
    /\ fin' = [fin EXCEPT !.ok = @ /\ ok]

\* `let mut t2 = t1.clone()` of a flushed tree, reopened or not: the working
\* tree goes on as t2
CloneTake ==
    /\ ptrees = <<>>
    /\ LazyReady
    /\ ptrees' = <<tree, tree>>
    /\ UNCHANGED <<parentsOf, idmap, iddag, run, last, asg, seeding, tree,
                   store, storeUp, tlast, fin, storeCap>>

CloneInsert(path, meta) ==
    /\ CloneReady
    /\ LET r == insert(tree, store, storeUp, path, meta)
       IN /\ tree' = r.root
          /\ CloneAfter(r.root, r.err # "store")
          /\ Done("insert", path, meta, r.ok, r.err)
    /\ UNCHANGED <<store, storeUp, scVars>>

CloneRemove(path) ==
    /\ CloneReady
    /\ LET r == remove(tree, store, storeUp, path)
       IN /\ tree' = r.root
          /\ CloneAfter(r.root, r.ok)
          /\ DoneRet("remove", path, <<>>, r.ok,
                     IF r.ok THEN "" ELSE "store", r.ret, 0)
    /\ UNCHANGED <<store, storeUp, scVars>>

CloneFlush ==
    /\ CloneReady
    /\ LET r == flush(tree, store, storeUp)
       IN /\ tree' = r.self
          /\ store' = r.store
          /\ CloneAfter(r.self, r.ok)
          /\ DoneRet("flush", <<>>, <<>>, r.ok, IF r.ok THEN "" ELSE "store",
                     IF r.ok THEN <<r.node>> ELSE <<>>, r.writes)
    /\ UNCHANGED <<storeUp, scVars>>

\* t2.finalize(vec![&t1])
CloneFinalize ==
    /\ CloneReady
    /\ LET r == finalize(tree, <<ptrees[1]>>, store, storeUp)
       IN /\ tree' = r.root
          /\ ptrees' = <<SharedCells(r.parents[1], tree, r.root), ptrees[2]>>
          /\ fin' = [fin EXCEPT !.ok = @ /\ r.ok]
          /\ DoneRet("finalize", <<>>, <<>>, r.ok,
                     IF r.panic THEN "panic"
                     ELSE IF r.ok THEN "" ELSE "store", r.out, 0)
    /\ UNCHANGED <<store, storeUp, scVars>>

NextClone ==
    \/ \E path \in Paths : LazyBuild(path)
    \/ LazyFlush
    \/ LazyReopen
    \/ LazyStoreFlip
    \/ CloneTake
    \/ \E path \in Paths : CloneInsert(path, NewFileMeta)
    \/ \E path \in Paths : CloneRemove(path)
    \/ CloneFlush
    \/ CloneFinalize

SpecClone == InitTree /\ [][NextClone]_vars

\* ------------------------------------------------------------------------
\* A caller keeps a tree it has edited and not flushed, and passes it to
\* finalize as a parent
\* ------------------------------------------------------------------------
\* `tree.clone()` of an edited tree is kept as a parent
FinKeepUnflushed ==
    /\ Len(ptrees) < 2
    /\ tlast.op \in {"insert", "remove"} /\ tlast.ok
    /\ tree.kind = "Ephemeral"
    /\ tree \notin SeqToSet(ptrees)
    /\ ptrees' = Append(ptrees, tree)
    /\ UNCHANGED <<tree, store, storeUp, tlast, fin, scVars>>

NextUnflushed ==
    \/ NextFinalize
    \/ FinKeepUnflushed

SpecUnflushed == InitFinalize /\ [][NextUnflushed]_vars

\* ------------------------------------------------------------------------
\* SegmentedChangelogBuilder::build_seeder
\* ------------------------------------------------------------------------
Versions == 0..MaxVersion

\* SegmentedChangelogBuilder::with_idmap_version
with_idmap_version(idmap_version, version) == version

\* SegmentedChangelogBuilder::idmap_version: unwrap_or_default
idmap_version_or_default(idmap_version) ==
    IF idmap_version = None THEN 0 ELSE idmap_version

\* mutant of next_idmap_version: the stored version is taken as it is
next_idmap_version_same(stored) ==
    IF stored = None THEN {1} ELSE {stored}

\* `Some(v) => v.0 + 1, None => 1`: the values the seeder can get; at the
\* largest version the addition overflows, which panics in a build with
\* overflow checks (None here) and wraps to 0 in one without
next_idmap_version(stored) ==
    IF stored = None THEN {1}
    ELSE IF stored = MaxVersion THEN {None, 0}
    ELSE {stored + 1}

\* build_seeder: the results it can have; up tells whether the version store
\* answers
build_seeder(idmap_version, stored, up) ==
    IF idmap_version # None
    THEN {[kind |-> "seeder",
           version |-> idmap_version_or_default(idmap_version)]}
    ELSE IF ~up THEN {[kind |-> "err"]}
    ELSE {IF v = None THEN [kind |-> "panic"]
          ELSE [kind |-> "seeder", version |-> idmap_version_or_default(v)] :
          v \in next_idmap_version(stored)}

SeederOpen == seeding.seeder.kind = "none"

SeederWithIdmapVersion(version) ==
    /\ SeederOpen
    /\ seeding' = [seeding EXCEPT !.idmap_version =
                      with_idmap_version(@, version)]
    /\ UNCHANGED <<parentsOf, idmap, iddag, run, last, asg, tree, store,
                   storeUp, tlast, ptrees, fin, storeCap>>

SeederBuild(up) ==
    /\ SeederOpen
    /\ \E s \in build_seeder(seeding.idmap_version, seeding.stored, up) :
          seeding' = [seeding EXCEPT !.seeder = s]
    /\ UNCHANGED <<parentsOf, idmap, iddag, run, last, asg, tree, store,
                   storeUp, tlast, ptrees, fin, storeCap>>

\* seed(): the version of the seeder becomes the stored version; the next
\* seeder is built by a new builder
SeederSeed ==
    /\ seeding.seeder.kind = "seeder"
    /\ seeding' = [NoSeeding EXCEPT !.stored = seeding.seeder.version]
    /\ UNCHANGED <<parentsOf, idmap, iddag, run, last, asg, tree, store,
                   storeUp, tlast, ptrees, fin, storeCap>>

\* the seeder is dropped without seeding, or build_seeder failed: a new
\* builder is made
SeederAgain ==
    /\ ~SeederOpen
    /\ seeding' = [NoSeeding EXCEPT !.stored = seeding.stored]
    /\ UNCHANGED <<parentsOf, idmap, iddag, run, last, asg, tree, store,
                   storeUp, tlast, ptrees, fin, storeCap>>

NextSeeder ==
    \/ \E version \in Versions : SeederWithIdmapVersion(version)
    \/ \E up \in BOOLEAN : SeederBuild(up)
    \/ SeederSeed
    \/ SeederAgain

SpecSeeder == InitTree /\ [][NextSeeder]_vars

\* ------------------------------------------------------------------------
\* Specifications of the segmented changelog
\* ------------------------------------------------------------------------
ParentChoices(c) ==
    {<<>>} \cup {<<p>> : p \in 1..(c - 1)}
           \cup {x \in (1..(c - 1)) \X (1..(c - 1)) : x[1] # x[2]}

Graphs ==
    {f \in [Commits -> UNION {ParentChoices(c) : c \in Commits}] :
        \A c \in Commits : f[c] \in ParentChoices(c)}

Init ==
    /\ parentsOf \in Graphs
    /\ idmap = {}
    /\ iddag = <<>>
    /\ run = [r \in Procs |-> IdleRun]
    /\ last = NoLast
    /\ asg = NoAsg
    /\ TreeStart

AllIdle == \A q \in Procs : run[q].pc = "idle"

\* callers serialize the builds of one repository
BeginSerial(head) ==
    /\ AllIdle
    /\ Begin(1, head)

\* build up to its first await, called as the seeder calls it: on an empty
\* idmap and iddag, with the parents of every commit in the start state, no
\* assignment and the first vertex as low_vertex. update_idmap and
\* update_iddag follow as in build_incremental.
BeginBuild(head) ==
    /\ AllIdle
    /\ idmap = {} /\ iddag = <<>>
    /\ LET start_state == [parents |-> parentsOf, assignments |-> {}]
           mem_idmap == assign_ids(start_state, head, MasterMinId)
           head_vertex == HeadVertex(mem_idmap, start_state, head)
       IN /\ head_vertex # None
          /\ run' = [run EXCEPT ![1] =
                [IdleRun EXCEPT !.head = head,
                                !.id_dag_next_id = next_free_id(iddag),
                                !.id_map_next_id = IdMapNextId(idmap),
                                !.idmap0 = idmap, !.iddag0 = iddag,
                                !.after = Follows(head),
                                !.prevVertex = PrevVertex(head),
                                !.pc = "update_idmap",
                                !.start_state = start_state,
                                !.mem_idmap = mem_idmap,
                                !.head_vertex = head_vertex]]
    /\ UNCHANGED <<parentsOf, idmap, iddag, last, asg, treeVars>>

Next ==
    \/ \E head \in Commits : BeginSerial(head)
    \/ \E head \in Commits : BeginBuild(head)
    \/ BfsStep(1)
    \/ Prepare(1)
    \/ UpdateIdmap(1)
    \/ UpdateIddag(1)
    \/ Stop(1)

Spec == Init /\ [][Next]_vars

\* The idmap table falls back to an older state between two calls (restore
\* from a backup, switch to a lagging replica): the rows from vertex k
\* upward are gone, so the iddag can be ahead of the idmap.
IdMapRollback ==
    /\ AllIdle
    /\ \E k \in {e[1] : e \in idmap} :
          idmap' = {e \in idmap : e[1] < k}
    /\ last' = NoLast
    /\ UNCHANGED <<parentsOf, iddag, run, asg, treeVars>>

NextEnv ==
    \/ \E head \in Commits : BeginSerial(head)
    \/ BfsStep(1)
    \/ Prepare(1)
    \/ UpdateIdmap(1)
    \/ UpdateIddag(1)
    \/ IdMapRollback

SpecEnv == Init /\ [][NextEnv]_vars

\* Two processes build without mutual exclusion; the calls that overlap
\* with the first call to finish are followed.
BeginRace(r, head) ==
    /\ last = NoLast
    /\ Begin(r, head)

NextRace ==
    \/ \E r \in Procs, head \in Commits : BeginRace(r, head)
    \/ \E r \in Procs : BfsStep(r)
    \/ \E r \in Procs : Prepare(r)
    \/ \E r \in Procs : UpdateIdmap(r)
    \/ \E r \in Procs : UpdateIddag(r)

SpecRace == Init /\ [][NextRace]_vars

\* A stand-alone call of assign_ids on an arbitrary StartState: every commit
\* is already assigned ("A"), unknown to the start state ("U") or has a
\* recorded parent list ("P"), cycles and self-parents included.
AsgParentLists ==
    {<<>>} \cup {<<p>> : p \in Commits}
           \cup {x \in Commits \X Commits : x[1] # x[2]}

AsgStatus ==
    {[k |-> "A", p |-> <<>>], [k |-> "U", p |-> <<>>]}
        \cup {[k |-> "P", p |-> ps] : ps \in AsgParentLists}

\* the assigned commits hold the vertices 0, 1, .. in commit order
AsgStartState(st) ==
    LET assigned == {c \in Commits : st[c].k = "A"}
    IN [parents |-> [c \in {x \in Commits : st[x].k = "P"} |-> st[c].p],
        assignments |->
            {<<Cardinality({x \in assigned : x < c}), c>> : c \in assigned}]

InitAssign ==
    /\ parentsOf = [c \in Commits |-> <<>>]
    /\ idmap = {}
    /\ iddag = <<>>
    /\ run = [r \in Procs |-> IdleRun]
    /\ last = NoLast
    /\ \E st \in [Commits -> AsgStatus], head \in Commits :
          asg = [called |-> FALSE, start_state |-> AsgStartState(st),
                 head |-> head,
                 low_vertex |-> Cardinality({c \in Commits : st[c].k = "A"}),
                 mem_idmap |-> {}, iters |-> 0]
    /\ TreeStart

AssignCall ==
    /\ ~asg.called
    /\ LET res == assign_ids_run(asg.start_state, asg.head, asg.low_vertex)
       IN asg' = [asg EXCEPT !.called = TRUE,
                             !.mem_idmap = res.mem_idmap,
                             !.iters = res.iters]
    /\ UNCHANGED <<parentsOf, idmap, iddag, run, last, treeVars>>

NextAssign == AssignCall

SpecAssign == InitAssign /\ [][NextAssign]_vars

\* ------------------------------------------------------------------------
\* Properties of serialized build_incremental calls (Spec)
\* ------------------------------------------------------------------------
IdMapBijective(m) ==
    \A x \in m, y \in m : (x[1] = y[1]) <=> (x[2] = y[2])

\* C1: every commit that holds a vertex has a vertex strictly greater than
\* the vertex of each of its parents (parents are assigned before children).
C1_ParentsBelowChildren ==
    \A e \in idmap :
        \A i \in 1..Len(parentsOf[e[2]]) :
            LET pv == find_vertex(idmap, parentsOf[e[2]][i])
            IN pv # None => pv < e[1]

\* C4: in every step of serialized calls, stopped and failed ones included,
\* the persistent idmap stays a bijection between commits and vertices and
\* no row is ever changed or removed.
C4_IdMapAppendOnlyBijection ==
    [][IdMapBijective(idmap') /\ idmap \subseteq idmap']_vars

\* a call stopped after its batch was persisted, and a later call added its
\* own rows before it failed in update_iddag
C4_Witness ==
    /\ last.outcome = "err"
    /\ last.wrote
    /\ Cardinality(idmap) >= 2
    /\ next_free_id(iddag) < IdMapNextId(idmap)

\* C5: a call that directly follows a completed call for the same head
\* returns what that call returned, leaves the idmap as it was and leaves
\* next_free_id of the iddag as it was.
C5_RepeatIsNoOp ==
    (last.after = "same_completed" /\ last.outcome \in Completed)
        => /\ ~last.wrote
           /\ ~last.grew
           /\ last.vertex = last.prevVertex

\* the second of two successful calls for one head
C5_Witness ==
    /\ last.after = "same_completed"
    /\ last.outcome \in {"ok", "ok_none"}
    /\ last.vertex = last.prevVertex
    /\ last.vertex # None

\* C7: a call for the head of a call that stopped between update_idmap and
\* update_iddag succeeds, writes no idmap row, returns the vertex stored for
\* the head and leaves that vertex contained in the iddag.
C7_ResumeAfterTornUpdate ==
    (last.after = "same_torn" /\ last.outcome \in Completed)
        => /\ last.outcome = "ok"
           /\ ~last.wrote
           /\ last.vertex = find_vertex(idmap, last.head)
           /\ last.vertex # None
           /\ contains_id(iddag, last.vertex)

\* ------------------------------------------------------------------------
\* Properties of assign_ids
\* ------------------------------------------------------------------------
\* the vertex a commit holds after assign_ids: the new one or the old one
VertexAfter(f, c) == HeadVertex(f.mem_idmap, f.start_state, c)

\* c is unassigned in the start state and so are its two recorded parents
TwoUnassignedParents(ss, c) ==
    /\ c \in DOMAIN ss.parents
    /\ find_vertex(ss.assignments, c) = None
    /\ Len(ss.parents[c]) = 2
    /\ find_vertex(ss.assignments, ss.parents[c][1]) = None
    /\ find_vertex(ss.assignments, ss.parents[c][2]) = None

Walkable(ss, c) ==
    find_vertex(ss.assignments, c) = None /\ c \in DOMAIN ss.parents

RECURSIVE WalkClosure(_, _)
WalkClosure(ss, S) ==
    LET T == S \cup {p \in Commits :
                        Walkable(ss, p)
                        /\ \E c \in S : p \in SeqToSet(ss.parents[c])}
    IN IF T = S THEN S ELSE WalkClosure(ss, T)

ReachableUnassigned(ss, head) ==
    IF Walkable(ss, head) THEN WalkClosure(ss, {head}) ELSE {}

\* C3: the result holds exactly the commits reachable from head through
\* unassigned commits with recorded parents, each once, and its vertices are
\* exactly low_vertex .. low_vertex + n - 1, none used twice.
C3_ExactContiguousBatch ==
    asg.called =>
        LET R == ReachableUnassigned(asg.start_state, asg.head)
            n == Cardinality(R)
        IN /\ {e[2] : e \in asg.mem_idmap} = R
           /\ {e[1] : e \in asg.mem_idmap}
                 = asg.low_vertex .. (asg.low_vertex + n - 1)
           /\ Cardinality(asg.mem_idmap) = n

\* a call that walked past an assigned commit and a shared ancestor
C3_Witness ==
    /\ asg.called
    /\ Cardinality(asg.mem_idmap) = MaxCommits - 1
    /\ asg.low_vertex = 1

\* ------------------------------------------------------------------------
\* Properties of the reseed check (SpecEnv) and of racing calls (SpecRace)
\* ------------------------------------------------------------------------
\* C6: a call that starts while next_free_id of the iddag is above the last
\* idmap vertex + 1 ends at once with the reseed error: no frame is opened
\* (nothing is fetched) and neither the idmap nor the iddag changes.
C6_ReseedBeforeAnyFetch ==
    [][(/\ AllIdle
        /\ next_free_id(iddag) > IdMapNextId(idmap)
        /\ (run' # run \/ (last' # last /\ last'.outcome # "none")))
          => /\ last'.outcome = "reseed"
             /\ run' = run
             /\ idmap' = idmap
             /\ iddag' = iddag]_vars

\* a call ended with the reseed error
C6_Witness ==
    /\ last.outcome = "reseed"
    /\ next_free_id(iddag) > IdMapNextId(idmap)
    /\ AllIdle

Prepared(r) == run[r].pc \in {"update_idmap", "update_iddag"}

BatchesCollide(b1, b2) ==
    \E x \in b1, y \in b2 : x[1] = y[1] /\ x[2] # y[2]

\* C8: two overlapping calls for different unassigned heads that read the
\* same id_map_next_id both hand out that vertex, and when neither head is
\* part of the other batch the two batches give one vertex to two different
\* commits.
C8_RacingBatchesCollide ==
    (/\ Prepared(1) /\ Prepared(2)
     /\ run[1].head # run[2].head
     /\ run[1].id_map_next_id = run[2].id_map_next_id
     /\ find_vertex(run[1].start_state.assignments, run[1].head) = None
     /\ find_vertex(run[2].start_state.assignments, run[2].head) = None)
        => /\ run[1].id_map_next_id \in {e[1] : e \in run[1].mem_idmap}
           /\ run[2].id_map_next_id \in {e[1] : e \in run[2].mem_idmap}
           /\ (/\ run[1].head \notin {e[2] : e \in run[2].mem_idmap}
               /\ run[2].head \notin {e[2] : e \in run[1].mem_idmap})
                  => BatchesCollide(run[1].mem_idmap, run[2].mem_idmap)

\* both calls are about to submit colliding batches
C8_Witness ==
    /\ run[1].pc = "update_idmap" /\ run[2].pc = "update_idmap"
    /\ run[1].head # run[2].head
    /\ run[1].id_map_next_id = run[2].id_map_next_id
    /\ BatchesCollide(run[1].mem_idmap, run[2].mem_idmap)

\* ------------------------------------------------------------------------
\* Properties of Tree::insert (SpecTree)
\* ------------------------------------------------------------------------
\* what get(path) answers for a tree, without keeping the filled cells
View(root, st, up, path) == get(root, st, up, path).res

\* the kind of link found at a path, or why none is found
KindAt(root, st, up, path) ==
    LET w == walk(root, st, up, <<>>, path)
    IN IF w.st = "found" THEN w.cursor.kind ELSE w.st

StrictPrefixes(path) == {SubSeq(path, 1, k) : k \in 0..(Len(path) - 1)}

\* this step is a call of op
Calls(op) == tlast'.n = tlast.n + 1 /\ tlast'.op = op

\* C9: after a successful insert(p, m) get(p) is File(m), get(q) is
\* Directory for every strict prefix q of p, and every other file is still
\* returned with its old metadata.
C9_InsertThenGet ==
    [][(Calls("insert") /\ tlast'.ok)
          => LET p == tlast'.path
                 m == tlast'.meta
             IN /\ p # <<>>
                /\ View(tree', store', storeUp', p)
                      = [kind |-> "File", meta |-> m]
                /\ \A q \in StrictPrefixes(p) :
                      View(tree', store', storeUp', q).kind = "Directory"
                /\ \A q \in Paths \ {p}, u \in BOOLEAN :
                      View(tree, store, u, q).kind = "File"
                         => View(tree', store', u, q)
                               = View(tree, store, u, q)]_vars

\* an insert below an existing directory next to another file succeeded
C9_Witness ==
    /\ tlast.op = "insert" /\ tlast.ok
    /\ Len(tlast.path) >= 2
    /\ View(tree, store, storeUp, tlast.path)
          = [kind |-> "File", meta |-> tlast.meta]
    /\ \E q \in Paths \ {tlast.path} :
          View(tree, store, storeUp, q).kind = "File"
    /\ \E c \in DOMAIN tree.links : tree.links[c].kind = "Durable"

\* some strict prefix of the path is a file
PrefixIsFile(root, st, path) ==
    \E q \in StrictPrefixes(path) : View(root, st, TRUE, q).kind = "File"

\* C10: insert(p, m) fails when a strict prefix of p is a file and when p
\* names a directory, and then every get answers as before and no directory
\* changes between Durable and Ephemeral.
C10_RejectedInsertChangesNothing ==
    [][(/\ Calls("insert")
        /\ \/ PrefixIsFile(tree, store, tlast'.path)
           \/ View(tree, store, TRUE, tlast'.path).kind = "Directory")
          => /\ ~tlast'.ok
             /\ \A q \in Paths :
                   /\ View(tree', store', storeUp', q)
                         = View(tree, store, storeUp, q)
                   /\ KindAt(tree', store', storeUp', q)
                         = KindAt(tree, store, storeUp, q)]_vars

\* an insert through a file was rejected on a tree with a Durable root
C10_Witness ==
    /\ tlast.op = "insert" /\ ~tlast.ok
    /\ tlast.err = "file"
    /\ PrefixIsFile(tree, store, tlast.path)
    /\ tree.kind = "Durable"

\* ------------------------------------------------------------------------
\* Properties of Tree::remove (SpecTree)
\* ------------------------------------------------------------------------
IsPrefix(q, p) == Len(q) <= Len(p) /\ SubSeq(p, 1, Len(q)) = q

\* another file than p lies below the directory q
OtherFileBelow(root, st, up, q, p) ==
    \E r \in Paths \ {p} :
        IsPrefix(q, r) /\ View(root, st, up, r).kind = "File"

\* what remove(p) of the file p must leave behind: p is gone and the strict
\* prefixes of p in Q are directories when they still hold a file and absent
\* when they do not; every other file is as it was
RemovedFrom(Q) ==
    LET p == tlast'.path
        m == View(tree, store, storeUp, p).meta
    IN /\ tlast'.ok
       /\ tlast'.ret = <<m>>
       /\ View(tree', store', storeUp', p).kind = "None"
       /\ \A q \in Q :
             View(tree', store', storeUp', q).kind
                = IF OtherFileBelow(tree, store, storeUp, q, p)
                  THEN "Directory" ELSE "None"
       /\ \A r \in Paths \ {p} :
             View(tree, store, storeUp, r).kind = "File"
                => View(tree', store', storeUp', r)
                      = View(tree, store, storeUp, r)

RemovesFile ==
    Calls("remove") /\ View(tree, store, storeUp, tlast'.path).kind = "File"

\* C11 as stated: remove(p) of a file returns its metadata, p is then absent,
\* every ancestor directory left without children is absent, the root
\* included, and the ancestors that keep other children stay directories.
C11_RemovePrunesEveryAncestor ==
    [][RemovesFile => RemovedFrom(StrictPrefixes(tlast'.path))]_vars

\* C11 (amended): the same for every ancestor other than the root; the root
\* stays a directory even when the last file is removed.
C11_RemovePrunesAncestorsBelowRoot ==
    [][RemovesFile
          => /\ RemovedFrom(StrictPrefixes(tlast'.path) \ {<<>>})
             /\ View(tree', store', storeUp', <<>>).kind = "Directory"]_vars

\* a file was removed from a directory that went away with it, next to a
\* file that stayed
C11_Witness ==
    /\ tlast.op = "remove" /\ tlast.ok /\ tlast.ret # <<>>
    /\ Len(tlast.path) = 2
    /\ View(tree, store, storeUp, SubSeq(tlast.path, 1, 1)).kind = "None"
    /\ \E r \in Paths : View(tree, store, storeUp, r).kind = "File"

\* C12: remove(p) of a path that is absent, names a directory, passes
\* through a file or is empty returns None, every get answers as before and
\* no directory changes between Durable and Ephemeral.
C12_RemoveOfNoFileChangesNothing ==
    [][(/\ Calls("remove")
        /\ View(tree, store, storeUp, tlast'.path).kind
              \in {"None", "Directory"})
          => /\ tlast'.ok
             /\ tlast'.ret = <<>>
             /\ \A q \in Paths :
                   /\ View(tree', store', storeUp', q)
                         = View(tree, store, storeUp, q)
                   /\ KindAt(tree', store', storeUp', q)
                         = KindAt(tree, store, storeUp, q)]_vars

\* a remove of an absent path below a Durable root returned None
C12_Witness ==
    /\ tlast.op = "remove" /\ tlast.ok /\ tlast.ret = <<>>
    /\ tlast.path # <<>>
    /\ tree.kind = "Durable"
    /\ tree.cell.st = "ok"
    /\ View(tree, store, storeUp, tlast.path).kind = "None"

\* ------------------------------------------------------------------------
\* Properties of Tree::flush (SpecTree)
\* ------------------------------------------------------------------------
\* C14: a flush that directly follows a successful flush succeeds, returns
\* the same root hash and makes no blob-store write.
C14_SecondFlushWritesNothing ==
    [][(Calls("flush") /\ tlast.op = "flush" /\ tlast.ok)
          => /\ tlast'.ok
             /\ tlast'.ret = tlast.ret
             /\ tlast'.writes = 0
             /\ store' = store]_vars

\* a tree with a file was flushed and a later flush wrote nothing
C14_Witness ==
    /\ tlast.op = "flush" /\ tlast.ok
    /\ tlast.writes = 0
    /\ tlast.n >= 3
    /\ tree.kind = "Durable" /\ tree.node = tlast.ret[1]
    /\ \E q \in Paths : View(tree, store, TRUE, q).kind = "File"

\* the files of a list are in strictly increasing path order
SortedFiles(fs) ==
    \A i \in 1..(Len(fs) - 1) : PathLess(fs[i][1], fs[i + 1][1])

\* no directory of the tree holds the error of a failed load
RECURSIVE NoFailedLoad(_)
NoFailedLoad(link) ==
    \/ link.kind = "Leaf"
    \/ /\ link.kind = "Durable" => link.cell.st # "err"
       /\ \A c \in DOMAIN ChildLinks(link) : NoFailedLoad(ChildLinks(link)[c])

\* C15: for a tree built by inserts and removes (finalize was never called
\* on it and no load from the store has failed in it), after a successful
\* flush that returned R, a fresh Tree::durable(R)
\* over the same store answers every get as the tree did before the flush
\* and as it does after it, and files() of both gives the same (path,
\* metadata) pairs: every file once, in sorted path order.
C15_FlushRoundTrip ==
    [][(Calls("flush") /\ tlast'.ok /\ fin.calls = 0 /\ NoFailedLoad(tree))
          => LET fresh == LinkDurable(tlast'.ret[1])
                 ff == files(fresh, store', TRUE)
                 ft == files(tree', store', TRUE)
             IN /\ \A q \in Paths :
                      /\ View(fresh, store', TRUE, q)
                            = View(tree, store, TRUE, q)
                      /\ View(fresh, store', TRUE, q)
                            = View(tree', store', TRUE, q)
                /\ ff.ok /\ ft.ok
                /\ ff.files = ft.files
                /\ SortedFiles(ff.files)
                /\ {ff.files[i] : i \in 1..Len(ff.files)}
                      = {<<q, View(tree, store, TRUE, q).meta>> :
                            q \in {x \in Paths :
                                     View(tree, store, TRUE, x).kind = "File"}}]_vars

\* a flush wrote a directory below the root and two files can be read back
C15_Witness ==
    /\ tlast.op = "flush" /\ tlast.ok
    /\ tlast.writes >= 2
    /\ Len(files(LinkDurable(tlast.ret[1]), store, TRUE).files) >= 2


\* the tuples of the last finalize call, and their paths
Out == tlast.ret

OutPaths == [i \in 1..Len(Out) |-> Out[i][1]]

FinalizeReturned == tlast.op = "finalize" /\ tlast.ok

\* C16: finalize returns its tuples in completion order: the tuple of a
\* directory comes after the tuple of every directory below it that has one,
\* and when there is any tuple the last one is the tuple of the root.
C16_ChildrenBeforeParents ==
    FinalizeReturned =>
        /\ \A i, j \in 1..Len(Out) :
              (IsPrefix(OutPaths[j], OutPaths[i]) /\ OutPaths[i] # OutPaths[j])
                  => i < j
        /\ Len(Out) > 0 => OutPaths[Len(Out)] = <<>>

\* finalize returned the tuples of two directories below the root, then the
\* root's
C16_Witness ==
    /\ FinalizeReturned
    /\ Len(Out) >= 3
    /\ Len(OutPaths[1]) > 0 /\ Len(OutPaths[2]) > 0


\* C17: finalize is idempotent. When a finalize call succeeded, a second call
\* on the tree it left, with the same parents, succeeds and returns the
\* identical sequence of (path, hash, bytes, p1, p2) tuples; so does a call
\* that directly follows a successful call with the same parents.
C17_FinalizeIdempotent ==
    [][(Calls("finalize") /\ tlast'.ok)
          => /\ LET second == finalize(tree', ptrees', store', storeUp')
                IN second.ok /\ second.out = tlast'.ret
             /\ (FinalizeReturned /\ fin'.parents = fin.parents)
                   => tlast'.ret = tlast.ret]_vars

\* a finalize call with two parents, not the first call on the tree, returned
\* the tuples of a directory below the root and of the root, and a second
\* call returns them again
C17_Witness ==
    /\ FinalizeReturned
    /\ fin.calls >= 2
    /\ Len(ptrees) = 2
    /\ Len(Out) >= 2
    /\ finalize(tree, ptrees, store, storeUp).out = Out


\* the (path, hash) pairs of a sequence of tuples
PathHashes(out) == {<<out[i][1], out[i][2]>> : i \in 1..Len(out)}

\* C18: for a tree and two parents p1, p2, finalize([p1, p2]) and
\* finalize([p2, p1]) succeed alike and return tuples of the same directories
\* with the same hash for each, and the hash of every returned tuple is the
\* hash of its content with its two parent fields (one of them may be the
\* null hash) taken in the other order.
C18_ParentOrderIrrelevant ==
    [][(Calls("finalize") /\ Len(ptrees) = 2)
          => LET swapped == finalize(tree, <<ptrees[2], ptrees[1]>>,
                                     store, storeUp)
             IN /\ swapped.ok = tlast'.ok
                /\ PathHashes(swapped.out) = PathHashes(tlast'.ret)
                /\ Len(swapped.out) = Len(tlast'.ret)
                /\ \A i \in 1..Len(tlast'.ret) :
                      LET t == tlast'.ret[i]
                      IN t[2] = finalize_compute_node(<<t[5], t[4]>>, t[3])]_vars

\* finalize with two parents of different root hashes returned the tuple of
\* a directory below the root that has two different parent hashes
C18_Witness ==
    /\ FinalizeReturned
    /\ Len(fin.parents) = 2 /\ fin.parents[1] # fin.parents[2]
    /\ \E i \in 1..Len(Out) :
          /\ Len(Out[i][1]) > 0
          /\ Out[i][4] # NullId /\ Out[i][5] # NullId
          /\ Out[i][4] # Out[i][5]


\* the store holds the bytes of tuple t under its path and hash
Stored(st, t) == <<t[1], t[2]>> \in DOMAIN st /\ st[<<t[1], t[2]>>] = t[3]

\* C19 as stated: when finalize has returned, the (path, hash, bytes) of
\* every tuple it returned is in the blob store.
C19_FinalizeWritesStore ==
    FinalizeReturned => \A i \in 1..Len(Out) : Stored(store, Out[i])

\* C19: finalize inserts nothing into the blob store: the store is the same
\* after the call as before it, and the (path, hash, bytes) of the returned
\* tuples are what the caller has to insert. Once the caller has inserted the
\* tuples of a finalize call without parents, a fresh Tree::durable at the
\* hash of the last tuple answers every get as the finalized tree does.
C19_FinalizeLeavesStoreToCaller ==
    [][(Calls("finalize") /\ tlast'.ok)
          => LET out == tlast'.ret
                 written == store_all(store', out, 1)
             IN /\ store' = store
                /\ (Len(ptrees) = 0)
                      => /\ Len(out) > 0
                         /\ \A i \in 1..Len(out) : Stored(written, out[i])
                         /\ \A q \in Paths :
                               View(LinkDurable(out[Len(out)][2]), written,
                                    TRUE, q)
                                  = View(tree', store', storeUp', q)]_vars

\* finalize returned the tuples of a directory below the root and of the
\* root over a store that a flush had written to, and none of them is in the
\* store
C19_Witness ==
    /\ FinalizeReturned
    /\ Len(Out) >= 2
    /\ DOMAIN store # {}
    /\ \A i \in 1..Len(Out) : ~Stored(store, Out[i])


\* the link at a path of a tree whose cells are loaded, or no link
RECURSIVE LinkOrNone(_, _)
LinkOrNone(link, comps) ==
    IF comps = <<>> THEN link
    ELSE IF link.kind = "Leaf" \/ comps[1] \notin DOMAIN ChildLinks(link)
    THEN NoLink
    ELSE LinkOrNone(ChildLinks(link)[comps[1]], Tail(comps))

\* the directories of a tree
DirsOf(root) ==
    {q \in Paths : LinkOrNone(root, q).kind \in {"Ephemeral", "Durable"}}

\* the directory at q of the working tree is Durable and has the hash of the
\* directory at q of one of the parents
SameAsParent(root, parents, q) ==
    LET l == LinkOrNone(root, q)
    IN /\ l.kind = "Durable"
       /\ \E i \in 1..Len(parents) :
             LET pl == LinkOrNone(parents[i], q)
             IN pl.kind = "Durable" /\ pl.node = l.node

\* the directories finalize has to convert: those that are not the same as
\* in a parent and lie below no directory that is
ChangedDirs(root, parents) ==
    {q \in DirsOf(root) :
        \A k \in 0..Len(q) : ~SameAsParent(root, parents, SubSeq(q, 1, k))}

\* C20: finalize returns no tuple for a directory that is Durable with the
\* hash of the directory at the same path of at least one parent, nor for a
\* directory below such a directory, and it returns exactly one tuple for
\* every other directory of the working tree.
C20_ExactlyTheChangedDirectories ==
    [][(Calls("finalize") /\ tlast'.ok)
          => LET out == tlast'.ret
                 changed == ChangedDirs(tree, ptrees)
             IN /\ {out[i][1] : i \in 1..Len(out)} = changed
                /\ Len(out) = Cardinality(changed)]_vars

\* finalize with a parent returned the tuples of two directories and none
\* for a directory below the root that is the same as in the parent
C20_Witness ==
    /\ FinalizeReturned
    /\ Len(fin.parents) >= 1
    /\ Len(Out) >= 2
    /\ \E q \in DirsOf(tree) :
          /\ Len(q) > 0
          /\ q \notin SeqToSet(OutPaths)
          /\ SameAsParent(tree, ptrees, q)


\* C13: after any sequence of insert, remove, flush and finalize calls (and
\* of the other operations) the root is a directory and never a Leaf:
\* get(empty path) is Directory, also when the last file has been removed,
\* and an insert at the empty path has been rejected as naming a directory.
C13_RootIsADirectory ==
    /\ tree.kind \in {"Ephemeral", "Durable"}
    /\ View(tree, store, storeUp, <<>>).kind = "Directory"
    /\ (tlast.op = "insert" /\ tlast.path = <<>>)
          => ~tlast.ok /\ tlast.err = "directory"

\* the last file of a finalized tree has been removed and the root is a
\* directory without children
C13_Witness ==
    /\ tlast.op = "remove" /\ tlast.ok /\ tlast.ret # <<>>
    /\ fin.calls >= 1
    /\ tree = Ephemeral(NoLinks)
    /\ View(tree, store, storeUp, <<>>).kind = "Directory"


\* the hashes of the directories the parents hold at q, in parent-list order
RECURSIVE ParentDirNodes(_, _, _)
ParentDirNodes(parents, q, i) ==
    IF i > Len(parents) THEN <<>>
    ELSE LET Rest == ParentDirNodes(parents, q, i + 1)
             l == LinkOrNone(parents[i], q)
         IN IF l.kind = "Durable" THEN <<l.node>> \o Rest ELSE Rest

\* the two parent slots of a tuple: the hashes packed to the front, the null
\* hash in every slot that is left
ParentSlots(nodes) ==
    <<IF Len(nodes) >= 1 THEN nodes[1] ELSE NullId,
      IF Len(nodes) >= 2 THEN nodes[2] ELSE NullId>>

BelowNothing(matcher, q) ==
    \E k \in 0..(Len(q) - 1) :
        matches_directory(matcher, SubSeq(q, 1, k)) = "Nothing"

\* the (path, metadata) pairs files has to yield for a matcher
MatchedFiles(root, st, up, matcher) ==
    {<<q, View(root, st, up, q).meta>> :
        q \in {p \in Paths : /\ View(root, st, up, p).kind = "File"
                             /\ matches_file(matcher, p)
                             /\ ~BelowNothing(matcher, p)}}

\* C22: files(matcher) that runs to the end yields, in sorted path order and
\* each once, the (path, metadata) of every file the matcher matches that
\* lies below no directory the matcher answered Nothing for, and nothing
\* else: no file of a subtree whose directory answered Nothing.
C22_FilesYieldsTheMatchedFiles ==
    [][(Calls("files") /\ tlast'.ok)
          => LET fs == tlast'.ret
                 want == MatchedFiles(tree', store, TRUE, tlast'.meta)
             IN /\ SortedFiles(fs)
                /\ SeqToSet(fs) = want
                /\ Len(fs) = Cardinality(want)]_vars

\* files ran with a matcher that answers Nothing for a directory holding a
\* file the matcher matches: that file was not yielded, a file from
\* elsewhere was
C22_Witness ==
    /\ tlast.op = "files" /\ tlast.ok
    /\ Len(tlast.ret) >= 1
    /\ \E d \in tlast.meta.nothing :
          \E q \in Paths :
              /\ Len(q) > Len(d) /\ SubSeq(q, 1, Len(d)) = d
              /\ View(tree, store, TRUE, q).kind = "File"
              /\ matches_file(tlast.meta, q)
              /\ \A i \in 1..Len(tlast.ret) : tlast.ret[i][1] # q


\* the last call was compat_subtree_diff and it returned Ok
SubtreeReturned == tlast.op = "compat_subtree_diff" /\ tlast.ok

\* C23: compat_subtree_diff returns the empty list when node is one of
\* other_nodes, whatever the depth, and reads no entry of the store for it
\* (the answer is the same for a node the store holds no entry for).
C23_NodeAmongOthersGivesEmpty ==
    (tlast.op = "compat_subtree_diff"
        /\ tlast.meta.node \in SeqToSet(tlast.meta.other_nodes))
       => tlast.ok /\ tlast.ret = <<>> /\ tlast.meta.reads = 0

\* the call named a node with a stored directory below it twice: as node and
\* as the second of two other nodes
C23_Witness ==
    /\ SubtreeReturned
    /\ Len(tlast.meta.other_nodes) = 2
    /\ tlast.meta.other_nodes[1] # tlast.meta.node
    /\ tlast.meta.other_nodes[2] = tlast.meta.node
    /\ tlast.meta.depth >= 2
    /\ tlast.ret = <<>>
    /\ LET g == get_entry(store, TRUE, tlast.path, tlast.meta.node)
       IN g.ok /\ \E i \in 1..Len(g.entry) : g.entry[i].flag = "t"


\* the paths of the triples the last call returned
SubtreePaths == [i \in 1..Len(tlast.ret) |-> tlast.ret[i][1]]

\* a lies strictly below b
StrictlyBelow(a, b) == Len(a) > Len(b) /\ SubSeq(a, 1, Len(b)) = b

\* C24: compat_subtree_diff returns its triples in post-order: of two
\* triples the earlier one is never for the directory of the later one or
\* for a directory above it; it is for a directory below the later one, or
\* for one of a subtree that comes first in component order; and the last
\* triple is the one of (path, node).
C24_TriplesInPostOrder ==
    (SubtreeReturned /\ tlast.ret # <<>>)
       => /\ \A i, j \in 1..Len(tlast.ret) :
                i < j => \/ StrictlyBelow(SubtreePaths[i], SubtreePaths[j])
                         \/ /\ ~StrictlyBelow(SubtreePaths[j], SubtreePaths[i])
                            /\ SubtreePaths[i] # SubtreePaths[j]
                            /\ PathLess(SubtreePaths[i], SubtreePaths[j])
          /\ tlast.ret[Len(tlast.ret)][1] = tlast.path
          /\ tlast.ret[Len(tlast.ret)][2] = tlast.meta.node

\* the call returned the triples of two sibling directories and then the
\* triple of the directory they are in
C24_Witness ==
    /\ SubtreeReturned
    /\ Len(tlast.ret) >= 3
    /\ \E i \in 1..(Len(tlast.ret) - 2) :
          /\ Len(SubtreePaths[i]) = Len(SubtreePaths[i + 1])
          /\ StrictlyBelow(SubtreePaths[i], SubtreePaths[Len(tlast.ret)])
          /\ StrictlyBelow(SubtreePaths[i + 1], SubtreePaths[Len(tlast.ret)])

\* every triple is for a directory fewer than depth levels below path
WithinDepth(depth) ==
    \A i \in 1..Len(tlast.ret) :
        Len(SubtreePaths[i]) - Len(tlast.path) < depth

CountIn(s, x) == Cardinality({i \in 1..Len(s) : s[i] = x})

SameMultiset(s, t) ==
    /\ Len(s) = Len(t)
    /\ \A i \in 1..Len(s) : CountIn(s, s[i]) = CountIn(t, s[i])

RECURSIVE CellOn(_, _, _)
CellOn(link, comps, incl) ==
    IF link.kind = "Durable" /\ (comps # <<>> \/ incl) /\ link.cell.st # "ok"
    THEN link.cell.st
    ELSE IF comps = <<>> \/ link.kind = "Leaf"
            \/ comps[1] \notin DOMAIN ChildLinks(link)
    THEN "ok"
    ELSE CellOn(ChildLinks(link)[comps[1]], Tail(comps), incl)

\* the cells a call needs: those along its path, or all of them for files
CellsFor(root, op, path) ==
    IF op = "files" THEN {CellOn(root, q, TRUE) : q \in Paths}
    ELSE {CellOn(root, path, op = "list")}

\* the tree and the answer a call gives
Outcome(op, root, st, up, path, meta) ==
    CASE op = "get" ->
            LET r == get(root, st, up, path)
            IN <<r.root, r.res.kind # "Err", <<r.res>>>>
      [] op = "list" ->
            LET r == list(root, st, up, path)
            IN <<r.root, r.res.kind # "Err", <<r.res>>>>
      [] op = "files" ->
            LET r == files(root, st, up) IN <<r.root, r.ok, r.files>>
      [] op = "insert" ->
            LET r == insert(root, st, up, path, meta) IN <<r.root, r.ok, <<>>>>
      [] op = "remove" ->
            LET r == remove(root, st, up, path) IN <<r.root, r.ok, r.ret>>

AccessOps == {"get", "list", "files", "insert", "remove"}

\* C27: over get, list, files, insert and remove calls on one tree value the
\* store is asked for the children of a Durable directory at most once: a
\* call leaves no directory it went through unasked, a directory once asked
\* stays asked, and a call that meets only asked directories gives the
\* answer it would give with the store in the other condition; after a
\* failed fetch every later call through that directory fails again, also
\* when the store is reachable, and leaves the tree as it is.
C27_ChildrenFetchedAtMostOnce ==
    [][(tlast'.n = tlast.n + 1 /\ tlast'.op \in AccessOps)
          => LET op == tlast'.op
                 p == tlast'.path
                 before == CellsFor(tree, op, p)
             IN /\ ("unloaded" \notin before /\ "err" \in before)
                      => ~tlast'.ok /\ tree' = tree
                /\ "unloaded" \notin before
                      => Outcome(op, tree, store, ~storeUp, p, tlast'.meta)
                            = <<tree', tlast'.ok, tlast'.ret>>
                /\ (op # "files" \/ tlast'.ok)
                      => "unloaded" \notin CellsFor(tree', op, p)
                /\ \A q \in Paths, incl \in BOOLEAN :
                      /\ CellOn(tree, q, incl) = "ok"
                            => CellOn(tree', q, incl) = "ok"
                      /\ CellOn(tree, q, incl) = "err"
                            => CellOn(tree', q, incl) = "err"]_vars

\* a get ran while the store was reachable and held the entry of the root,
\* and returned the error of the earlier, failed fetch of the root
C27_Witness ==
    /\ tlast.op = "get" /\ ~tlast.ok
    /\ storeUp
    /\ Len(tlast.path) >= 2
    /\ CellOn(tree, tlast.path, FALSE) = "err"
    /\ get_entry(store, storeUp, <<>>, tree.node).ok


\* no Ephemeral directory lies below a Durable one
RECURSIVE Layered(_, _)
Layered(link, under) ==
    \/ link.kind = "Leaf"
    \/ /\ under => link.kind # "Ephemeral"
       /\ \A c \in DOMAIN ChildLinks(link) :
             Layered(ChildLinks(link)[c], under \/ link.kind = "Durable")

\* the step is an insert or a remove that returned Ok and changed a file
ChangesFile ==
    /\ tlast'.n = tlast.n + 1 /\ tlast'.ok
    /\ \/ /\ tlast'.op = "insert"
          /\ View(tree, store, storeUp, tlast'.path)
                # [kind |-> "File", meta |-> tlast'.meta]
       \/ /\ tlast'.op = "remove"
          /\ tlast'.ret # <<>>

\* C28: in every state reached by insert, remove, flush and finalize calls,
\* also calls that fail, no Durable directory has an Ephemeral directory
\* below it, so every ancestor of an Ephemeral directory is Ephemeral; and
\* after an insert or remove that changed a file every directory left on the
\* path from the root to that file is Ephemeral.
C28_EphemeralAboveEphemeral ==
    [][/\ Layered(tree', FALSE)
       /\ ChangesFile
             => \A k \in 0..(Len(tlast'.path) - 1) :
                   LinkOrNone(tree', SubSeq(tlast'.path, 1, k)).kind
                      \in IF tlast'.op = "insert" THEN {"Ephemeral"}
                          ELSE {"Ephemeral", "None"}]_vars

\* finalize failed on a directory it could not load after it had converted
\* a directory that comes before it: the root is Ephemeral and has a child
\* with the hash finalize gave it
C28_Witness ==
    /\ tlast.op = "finalize" /\ ~tlast.ok
    /\ tree.kind = "Ephemeral"
    /\ \E c \in DOMAIN tree.links :
          /\ tree.links[c].kind = "Durable"
          /\ Len(tree.links[c].node) > 0
          /\ tree.links[c].node[1] = -1
    /\ \E c \in DOMAIN tree.links :
          tree.links[c].kind = "Durable" /\ tree.links[c].cell.st = "err"


\* the paths of the Ephemeral directories of a tree
EphemeralDirs(root) == {q \in Paths : LinkOrNone(root, q).kind = "Ephemeral"}

\* the paths from the root to the directory that holds p
SpineOf(p) == {SubSeq(p, 1, k) : k \in 0..(Len(p) - 1)}

\* C29: an insert or remove at p that returned Ok leaves every directory
\* that is not on the path from the root to p as it was (a Durable one stays
\* Durable with its hash and its cell) and makes no directory off that path
\* Ephemeral; a flush that returns Ok writes one blob for every Ephemeral
\* directory, at its path, and none for any other directory, so after such
\* an edit of a flushed tree it writes blobs for the spine only.
C29_EditTouchesOnlyTheSpine ==
    [][/\ (tlast'.n = tlast.n + 1 /\ tlast'.ok
             /\ tlast'.op \in {"insert", "remove"})
          => /\ \A q \in DirsOf(tree) \ SpineOf(tlast'.path) :
                   LinkOrNone(tree', q) = LinkOrNone(tree, q)
             /\ EphemeralDirs(tree')
                   \subseteq EphemeralDirs(tree) \cup SpineOf(tlast'.path)
       /\ (tlast'.n = tlast.n + 1 /\ tlast'.ok /\ tlast'.op = "flush")
          => /\ tlast'.writes = Cardinality(EphemeralDirs(tree))
             /\ {k[1] : k \in DOMAIN store' \ DOMAIN store}
                   \subseteq EphemeralDirs(tree)
             /\ \A q \in DirsOf(tree) \ EphemeralDirs(tree) :
                   /\ LinkOrNone(tree', q).kind = "Durable"
                   /\ LinkOrNone(tree', q).node = LinkOrNone(tree, q).node]_vars

\* a tree with two directories below the root was flushed, edited in one of
\* them and flushed again: the second flush wrote two blobs, those of the
\* root and of the edited directory
C29_Witness ==
    /\ tlast.op = "flush" /\ tlast.ok
    /\ tlast.n >= 3
    /\ tlast.writes = 2
    /\ Cardinality({q \in DirsOf(tree) : Len(q) = 1}) >= 2


\* the commits a step of the walk added to the queue
Enqueued(r) ==
    LET old == Tail(run[r].queue)
        new == run'[r].queue
    IN {new[i] : i \in (Len(old) + 1)..Len(new)}

\* the commits that are in the queue or were taken from it
Pushed(r) ==
    {run[r].queue[i] : i \in 1..Len(run[r].queue)}
        \cup {run[r].fetched[i] : i \in 1..Len(run[r].fetched)}

\* the idmap has no vertex for cs, or the iddag does not contain it
MissingFromIddag(cs) ==
    \/ \A e \in idmap : e[2] # cs
    \/ ~contains_id(iddag, find_vertex(idmap, cs))

\* the iteration of the walk that takes cs from the queue
BfsVisits(r, cs) ==
    /\ run[r].pc = "bfs" /\ run'[r].pc = "bfs"
    /\ run[r].queue # <<>> /\ Head(run[r].queue) = cs
    /\ run'[r].fetched = Append(run[r].fetched, cs)

\* C30: in the breadth-first walk from head, the iteration for a commit
\* enqueues the parents of the commit that were not enqueued before exactly
\* when the commit has no idmap vertex or its vertex is not in the iddag, and
\* enqueues nothing otherwise; it records the parents of the commit in
\* start_state.parents and, when the commit has an idmap vertex, that vertex
\* in start_state.assignments (and no assignment when it has none); and no
\* commit other than head is taken from the queue twice.
C30_WalkEnqueuesAndRecords ==
    [][\A cs \in Commits : BfsVisits(1, cs) =>
          LET parents == {parentsOf[cs][i] : i \in 1..Len(parentsOf[cs])}
              ss == run'[1].start_state
              fetched == run'[1].fetched
          IN /\ Enqueued(1) = IF MissingFromIddag(cs)
                              THEN parents \ Pushed(1) ELSE {}
             /\ MissingFromIddag(cs) => parents \subseteq Pushed(1) \cup Enqueued(1)
             /\ Len(run'[1].queue) = Len(run[1].queue) - 1
                                        + Cardinality(Enqueued(1))
             /\ cs \in DOMAIN ss.parents /\ ss.parents[cs] = parentsOf[cs]
             /\ \A e \in idmap : e[2] = cs =>
                    find_vertex(ss.assignments, cs) = find_vertex(idmap, cs)
             /\ (\A e \in idmap : e[2] # cs) =>
                    \A e \in ss.assignments : e[2] # cs
             /\ \A i, j \in 1..Len(fetched) :
                    (i # j /\ fetched[i] # run[1].head)
                        => fetched[i] # fetched[j]]_vars

\* a walk ended that went on from a commit without a vertex in the iddag to
\* its parent, and that stopped at a commit whose vertex is in the iddag and
\* left the parent of that commit out
C30_Witness ==
    /\ run[1].pc = "bfs" /\ run[1].queue = <<>>
    /\ Len(run[1].fetched) >= 2
    /\ \E c \in Commits :
          /\ \E i \in 1..Len(run[1].fetched) : run[1].fetched[i] = c
          /\ ~MissingFromIddag(c)
          /\ parentsOf[c] # <<>>
          /\ \A i \in 1..Len(run[1].fetched) :
                run[1].fetched[i] # parentsOf[c][1]
    /\ \E c \in Commits :
          /\ \E i \in 1..Len(run[1].fetched) : run[1].fetched[i] = c
          /\ MissingFromIddag(c)
          /\ parentsOf[c] # <<>>
          /\ \E i \in 1..Len(run[1].fetched) :
                run[1].fetched[i] = parentsOf[c][1]


\* what get(q) answers on a tree when the store is reachable
Answer(root, q) == get(root, store, TRUE, q).res

\* the kind of the link at q, with its hash when it is Durable
KindAndHashAt(root, q) ==
    LET w == walk(root, store, TRUE, <<>>, q)
    IN IF w.st # "found" THEN <<"none">>
       ELSE IF w.cursor.kind = "Durable" THEN <<"Durable", w.cursor.node>>
       ELSE <<w.cursor.kind>>

\* C31: an insert of m at a path that already names a file with metadata m
\* returns Ok whenever the store lets it reach the file, and when it returns
\* Ok every get answers as before and every directory keeps its kind and
\* hash, so that a following flush gives the hash and writes the blobs it
\* would have without the insert: on a flushed tree the previous root hash
\* and no blob.
C31_InsertOfEqualFileIsNoOp ==
    [][(/\ tlast'.n = tlast.n + 1
        /\ tlast'.op = "insert"
        /\ Answer(tree, tlast'.path)
              = [kind |-> "File", meta |-> tlast'.meta])
       => /\ storeUp => tlast'.ok
          /\ tlast'.ok =>
             /\ \A q \in Paths :
                   /\ Answer(tree', q) = Answer(tree, q)
                   /\ KindAndHashAt(tree', q) = KindAndHashAt(tree, q)
             /\ LET before == flush(tree, store, TRUE)
                    after == flush(tree', store, TRUE)
                IN /\ after.ok
                   /\ after.node = before.node
                   /\ after.writes = before.writes
                   /\ after.store = before.store
                   /\ tree.kind = "Durable"
                         => after.node = tree.node /\ after.writes = 0]_vars

\* a file two levels down in a flushed tree was inserted again with the
\* metadata it has: the call returned Ok and the root is still Durable
C31_Witness ==
    /\ tlast.op = "insert" /\ tlast.ok
    /\ Len(tlast.path) = 2
    /\ tree.kind = "Durable"
    /\ Answer(tree, tlast.path) = [kind |-> "File", meta |-> tlast.meta]


\* C32: a finalize call with a parent tree whose root is Ephemeral is left
\* through the unreachable!() of active_parent_tree_nodes: it returns no
\* tuple sequence and leaves the tree as it is; and a call is left that way
\* only when one of its parents is not flushed.
C32_UnflushedParentAborts ==
    [][(tlast'.n = tlast.n + 1 /\ tlast'.op = "finalize")
       => /\ (\E i \in 1..Len(ptrees) : ptrees[i].kind = "Ephemeral")
             => /\ tlast'.err = "panic"
                /\ ~tlast'.ok
                /\ tlast'.ret = <<>>
                /\ tree' = tree
          /\ tlast'.err = "panic"
             => \E i \in 1..Len(ptrees) : ~AllDurable(ptrees[i])]_vars

\* finalize was called with two parents, a finalized one and one that was
\* edited and not flushed, and was left through the panic
C32_Witness ==
    /\ tlast.op = "finalize" /\ tlast.err = "panic"
    /\ Len(ptrees) = 2
    /\ \E i \in 1..2 : ptrees[i].kind = "Durable"
    /\ \E i \in 1..2 : ptrees[i].kind = "Ephemeral"


\* a step in which build_seeder returns a seeder
SeederBuilt ==
    /\ seeding.seeder.kind = "none"
    /\ seeding'.seeder.kind = "seeder"

\* the version a seeder gets from the store: one more than the stored
\* version, 1 when none is stored
FreshVersion(version) ==
    /\ version = IF seeding.stored = None THEN 1 ELSE seeding.stored + 1
    /\ seeding.stored # None => version > seeding.stored

\* C33 as stated: every seeder is built with the stored version + 1 (1 when
\* no version is stored), a version strictly greater than the stored one.
C33_SeederVersionAlwaysFresh ==
    [][SeederBuilt => FreshVersion(seeding'.seeder.version)]_vars

\* C33: a seeder built by a builder on which with_idmap_version was not
\* called, with a stored version below the largest one or none, has the
\* stored version + 1 (1 when none is stored), which is strictly greater than
\* the stored version; a builder on which with_idmap_version(v) was called
\* builds the seeder with v, whatever is stored.
C33_SeederVersionFreshUnlessSet ==
    [][SeederBuilt =>
          /\ (seeding.idmap_version = None /\ seeding.stored # MaxVersion)
                => FreshVersion(seeding'.seeder.version)
          /\ seeding.idmap_version # None
                => seeding'.seeder.version = seeding.idmap_version]_vars

\* a second seeder was built from the store: version 2 after version 1
C33_Witness ==
    /\ seeding.seeder.kind = "seeder"
    /\ seeding.idmap_version = None
    /\ seeding.stored = 1
    /\ seeding.seeder.version = 2


\* a step that is a call of flush or finalize
FlushOrFinalizeStep ==
    /\ tlast'.n = tlast.n + 1
    /\ tlast'.op \in {"flush", "finalize"}

\* C34: after a flush or finalize call, whether it returned Ok or an error
\* and however far it got, get answers for every path what it answered
\* before the call, the store being in the condition it was in during the
\* call.
C34_FlushAndFinalizeKeepContents ==
    [][FlushOrFinalizeStep
       => \A p \in Paths :
             get(tree', store', storeUp, p).res
                 = get(tree, store, storeUp, p).res]_vars

\* a flush wrote the entry of one directory and failed at the next write:
\* the root is still Ephemeral above a directory that has become Durable
C34_Witness ==
    /\ tlast.op = "flush" /\ ~tlast.ok
    /\ tlast.writes >= 1
    /\ tree.kind = "Ephemeral"
    /\ \E c \in DOMAIN tree.links : tree.links[c].kind = "Durable"

\* the entries a step has added to the store
Written(key) == key \in DOMAIN store' /\ key \notin DOMAIN store

\* C38: every directory entry a flush call writes, also a call that fails
\* after some of its writes, names as child directories only directories
\* whose entry is in the store when the call ends or that were Durable with
\* that hash before the call.
C38_ChildrenStoredBeforeParent ==
    [][(tlast'.n = tlast.n + 1 /\ tlast'.op = "flush")
       => \A key \in DOMAIN store' :
             Written(key) =>
                LET entry == ParseEntry(store'[key])
                IN \A i \in 1..Len(entry) :
                      entry[i].flag = "t" =>
                         LET child == Append(key[1], entry[i].component)
                         IN \/ <<child, entry[i].node>> \in DOMAIN store'
                            \/ /\ LinkOrNone(tree, child).kind = "Durable"
                               /\ LinkOrNone(tree, child).node
                                     = entry[i].node]_vars

\* a flush with room for one blob wrote the entry of a directory below the
\* root and failed to write the root
C38_Witness ==
    /\ tlast.op = "flush" /\ ~tlast.ok
    /\ tlast.writes = 1
    /\ storeCap # None /\ Cardinality(DOMAIN store) = storeCap
    /\ \E key \in DOMAIN store : Len(key[1]) = 1


\* a get of p on the tree that was cloned answers what it answered at the
\* clone, and the link at p has the kind and hash it had
CloneAsItWasAt(p) ==
    /\ Answer(ptrees[1], p) = Answer(ptrees[2], p)
    /\ KindAndHashAt(ptrees[1], p) = KindAndHashAt(ptrees[2], p)

\* a tree in which no cell was filled since the clone answers as it did
CloneAsItWas ==
    ptrees[1] = ptrees[2] \/ \A p \in Paths : CloneAsItWasAt(p)

RECURSIVE ReachedFrom(_, _)
ReachedFrom(ss, S) ==
    LET more == S \cup {p \in Commits :
                          \E c \in S \cap DOMAIN ss.parents :
                              \E i \in 1..Len(ss.parents[c]) :
                                  ss.parents[c][i] = p}
    IN IF more = S THEN S ELSE ReachedFrom(ss, more)

\* C36: assign_ids returns on every start state, parent lists with shared
\* ancestors and cycles included: no commit receives two vertices, the pops
\* of a Visit (the iterations that are not an Assign) are no more than the
\* commits reachable from head, and so the loop runs at most twice as many
\* iterations as there are commits.
C36_AssignIdsTerminates ==
    asg.called =>
        LET assigns == Cardinality(asg.mem_idmap)
            visits == asg.iters - assigns
            reached == ReachedFrom(asg.start_state, {asg.head})
        IN /\ \A c \in Commits :
                 Cardinality({e \in asg.mem_idmap : e[2] = c}) <= 1
           /\ assigns = Cardinality({e[2] : e \in asg.mem_idmap})
           /\ visits <= Cardinality(reached)
           /\ assigns <= visits
           /\ asg.iters <= 2 * Cardinality(Commits)

\* a call on a start state in which head lies on a cycle of parents and
\* has two parents with a common parent, and the loop ran twice per commit
C36_Witness ==
    /\ asg.called
    /\ asg.iters = 2 * Cardinality(Commits)
    /\ asg.head \in DOMAIN asg.start_state.parents
    /\ Len(asg.start_state.parents[asg.head]) = 2
    /\ \E c \in DOMAIN asg.start_state.parents :
          /\ c # asg.head
          /\ \E i \in 1..Len(asg.start_state.parents[c]) :
                asg.start_state.parents[c][i] = asg.head


\* every vertex of the iddag d is mapped in the idmap m, and d ends no later
\* than m
IdDagWithinIdMap(d, m) ==
    /\ \A v \in MasterMinId..(next_free_id(d) - 1) :
          find_changeset_id(m, v) # None
    /\ next_free_id(d) <= IdMapNextId(m)

\* C37: in every state of serialized build and build_incremental calls,
\* failed and stopped ones included, every vertex of the iddag is mapped in
\* the idmap and next_free_id of the iddag is at most the last vertex of the
\* idmap plus one; a step that extends the iddag adds only vertices the
\* idmap mapped before the step; no call ends with the reseed error.
C37_IdMapWrittenBeforeIdDag ==
    /\ [](IdDagWithinIdMap(iddag, idmap) /\ last.outcome # "reseed")
    /\ [][IdDagWithinIdMap(iddag', idmap)]_vars

\* a call has extended the iddag and a later call was stopped between
\* update_idmap and update_iddag, so that the idmap is ahead of the iddag
C37_Witness ==
    /\ last.outcome = "torn"
    /\ iddag # <<>>
    /\ next_free_id(iddag) < IdMapNextId(idmap)


\* the store holds the entry of the directory (path, node) and of every
\* directory below it
RECURSIVE EntriesPresent(_, _, _)
EntriesPresent(st, path, node) ==
    LET g == get_entry(st, TRUE, path, node)
    IN /\ g.ok
       /\ \A i \in 1..Len(g.entry) :
             g.entry[i].flag = "t" =>
                 EntriesPresent(st, Append(path, g.entry[i].component),
                                g.entry[i].node)

\* C40: compat_subtree_diff returns Ok whenever the store answers and holds
\* the entry of every directory of the tree of node and of the trees of the
\* other nodes; a component that is a directory under node and a file in
\* another tree does not make it fail.
C40_SucceedsWhenEntriesPresent ==
    (/\ tlast.op = "compat_subtree_diff"
     /\ storeUp
     /\ EntriesPresent(store, tlast.path, tlast.meta.node)
     /\ \A i \in 1..Len(tlast.meta.other_nodes) :
           EntriesPresent(store, tlast.path, tlast.meta.other_nodes[i]))
       => tlast.ok


\* the directories (path, hash) of the tree of node that lie fewer than
\* levels levels below its root
RECURSIVE NodeDirs(_, _, _, _)
NodeDirs(st, path, node, levels) ==
    IF levels <= 0 THEN {}
    ELSE LET g == get_entry(st, TRUE, path, node)
         IN {<<path, node>>}
            \cup UNION {NodeDirs(st, Append(path, g.entry[i].component),
                                 g.entry[i].node, levels - 1) :
                        i \in {j \in 1..Len(g.entry) : g.entry[j].flag = "t"}}

\* the hashes of the directories that the tree of the peer node `other`,
\* rooted at path, has at the path `below` (path followed by rest)
RECURSIVE PeerDirsAt(_, _, _, _)
PeerDirsAt(st, path, other, rest) ==
    IF rest = <<>> THEN {other}
    ELSE LET g == get_entry(st, TRUE, path, other)
         IN UNION {PeerDirsAt(st, Append(path, Head(rest)), g.entry[i].node,
                              Tail(rest)) :
                   i \in {j \in 1..Len(g.entry) :
                             /\ g.entry[j].flag = "t"
                             /\ g.entry[j].component = Head(rest)}}

\* the directories of the peers at the path q below the path of the call
PeerDirs(q) ==
    UNION {PeerDirsAt(store, tlast.path, tlast.meta.other_nodes[i],
                      SubSeq(q, Len(tlast.path) + 1, Len(q))) :
           i \in 1..Len(tlast.meta.other_nodes)}

InResult(q, h) ==
    \E i \in 1..Len(tlast.ret) : tlast.ret[i][1] = q /\ tlast.ret[i][2] = h

\* C39: when compat_subtree_diff returns Ok for a node that is not one of
\* other_nodes, every directory of the tree of node that lies fewer than
\* depth levels below path is in the result or is, with the same hash, the
\* directory a peer tree has at that path; and a directory whose parent is
\* in the result is left out only when the entry of a peer directory at the
\* parent path lists its component with its hash.
C39_CompleteForThePeer ==
    (SubtreeReturned
        /\ tlast.meta.node \notin SeqToSet(tlast.meta.other_nodes))
       => \A d \in NodeDirs(store, tlast.path, tlast.meta.node,
                            tlast.meta.depth) :
             \/ InResult(d[1], d[2])
             \/ /\ d[2] \in PeerDirs(d[1])
                /\ LET parent == SubSeq(d[1], 1, Len(d[1]) - 1)
                   IN (\E h \in NodesAt(store, parent) : InResult(parent, h))
                         => \E o \in PeerDirs(parent) :
                               \E x \in SeqToSet(get_entry(store, TRUE,
                                                           parent, o).entry) :
                                   /\ x.component = d[1][Len(d[1])]
                                   /\ x.node = d[2]

\* a call with a peer returned the triple of one directory below path and
\* left out a sibling directory that the peer holds with the same hash
C39_Witness ==
    /\ SubtreeReturned
    /\ tlast.meta.node \notin SeqToSet(tlast.meta.other_nodes)
    /\ tlast.meta.other_nodes # <<>>
    /\ Len(tlast.ret) = 2
    /\ \E d \in NodeDirs(store, tlast.path, tlast.meta.node,
                         tlast.meta.depth) :
          /\ ~InResult(d[1], d[2])
          /\ d[2] \in PeerDirs(d[1])

====
